---------------------------- MODULE Spec2Model ----------------------------
(***************************************************************************)
(* Verification model of the SofaScore ingestion chain:                    *)
(*   - scraper/pg_vector_store.py : PgVectorStore (embed, add_document,    *)
(*     get_documents_by_user, delete_document, search_with_score)          *)
(*   - scraper/scraper.py         : build_match_json and its helpers       *)
(*                                                                         *)
(* The vector store is a state machine over the table aux.embeddings; the  *)
(* normalizer is a pure function applied to inputs drawn from bounded      *)
(* sets of JSON payloads.                                                  *)
(***************************************************************************)
EXTENDS Integers, Sequences, FiniteSets, TLC

VARIABLES
    table,      \* aux.embeddings: row id -> [text, metadata, embedding]
    uuidCount,  \* number of uuid.uuid4() values drawn so far
    lastOp,     \* the vector-store call that returned last, with its outcome
    normIn,     \* arguments of the build_match_json call under study
    normOut,    \* its result (NotCalled before the call)
    cleanIn,    \* the tree and the removal set given to JsonCleaner
    cleanOut,   \* the results of the successive clean_data passes over it
    files,      \* the output directory: relative path -> content of the file
    saveLog,    \* the save_match_json calls made so far, with their paths
    run,        \* collect_matches: its rounds, its position, its index, its end
    cli,        \* main: how the command ended
    embIn,      \* the persisted match handed to the chunk builder
    embOut,     \* the add_document calls the chunk builder made for it
    listIn,     \* the listing call under study: its function, its candidates
    listOut     \* what the call returned or raised, and the requests it sent

vars == <<table, uuidCount, lastOp, normIn, normOut, cleanIn, cleanOut,
          files, saveLog, run, cli, embIn, embOut, listIn, listOut>>

storeVars == <<table, uuidCount, lastOp>>
normVars == <<normIn, normOut>>
cleanVars == <<cleanIn, cleanOut>>
fileVars == <<files, saveLog>>
collectVars == <<run, cli>>
embedVars == <<embIn, embOut>>
listVars == <<listIn, listOut>>

\* Everything but the vector store.
passVars == <<normVars, cleanVars, fileVars, collectVars, embedVars, listVars>>

(***************************************************************************)
(* Bounds of the model.                                                    *)
(***************************************************************************)
MaxTextLen == 2     \* longest text handed to add_document
MaxUuid == 4        \* uuid4() draws available to a behaviour
MaxK == 2           \* largest k handed to search_with_score
MaxRows == 3        \* rows ingested before searching (SearchSpec)
MaxDepth == 3       \* nesting depth of the trees given to clean_data
MaxPasses == 2      \* successive clean_data passes over one tree
MaxSaves == 2       \* save_match_json calls into one output directory
MaxPlayers == 2     \* player entries of one side of a lineup
MaxEvents == 2      \* events of the season the API knows

(***************************************************************************)
(* Program constants.                                                      *)
(***************************************************************************)
EMBED_DIM == 768                \* output_dimensionality / expected length
DEFAULT_MAX_CHUNK_SIZE == 999999
SEASON_ID == 72034              \* season_id of collect_matches

(***************************************************************************)
(* Small helpers.                                                          *)
(***************************************************************************)
Min(a, b) == IF a < b THEN a ELSE b

Range(s) == {s[i] : i \in 1..Len(s)}

\* All duplicate-free sequences over the finite set S that list it entirely.
Permutations_(S) ==
    {s \in [1..Cardinality(S) -> S] : \A i, j \in 1..Cardinality(S) : i # j => s[i] # s[j]}

(***************************************************************************)
(* uuid.uuid4(): the n-th value drawn, as a string.  Distinct draws give   *)
(* distinct strings.                                                       *)
(***************************************************************************)
uuid4(n) == ToString(n)

(***************************************************************************)
(* Embedding vectors.  A vector of the service is represented by its       *)
(* length and its only non-zero component (axis, sign = +1/-1): the model  *)
(* draws unit vectors along the axes, for which the cosine is exact.       *)
(* The empty Python list is the vector of length 0.                        *)
(***************************************************************************)
EmptyVec == [len |-> 0, axis |-> 0, sign |-> 0]

Vec(n, a, s) == [len |-> n, axis |-> a, sign |-> s]

\* How the external service maps a text to a vector is not modelled: it
\* answers each call with any of its possible responses.
ExceptionResponse == [status |-> "exception", embeddings |-> <<>>]
NoEmbeddingsResponse == [status |-> "ok", embeddings |-> <<>>]
VecResponse(v) == [status |-> "ok", embeddings |-> <<v>>]

\* PgVectorStore.embed
embed(response) ==
    IF response.status = "exception" THEN EmptyVec
    ELSE IF Len(response.embeddings) = 0 THEN EmptyVec
    ELSE LET embedding == response.embeddings[1]
         IN  IF embedding.len # EMBED_DIM THEN EmptyVec ELSE embedding

\* "not embedding" for a Python list
IsEmptyVec(v) == v.len = 0

(***************************************************************************)
(* pgvector: cosine distance (<=>) of two stored/parsed vectors of equal   *)
(* length, and the similarity 1 - distance used by the query.              *)
(***************************************************************************)
Cosine(a, b) == IF a.axis = b.axis THEN a.sign * b.sign ELSE 0

CosineDistance(a, b) == 1 - Cosine(a, b)

Similarity(rowEmbedding, queryVec) == 1 - CosineDistance(rowEmbedding, queryVec)

\* '[..]'::vector : the cast fails on a vector without components and on a
\* vector whose length differs from the column's.
VectorCastOK(v) == v.len = EMBED_DIM

(***************************************************************************)
(* Storage connections (psycopg2).  A connection is open or closed and its *)
(* transaction is "idle" (nothing executed), "active", "failed",           *)
(* "committed" or "rolledback".  close() on a connection with a pending    *)
(* transaction discards the transaction as a rollback does.                *)
(***************************************************************************)
NewConn == [open |-> TRUE, tx |-> "idle"]

Executed(c) == [c EXCEPT !.tx = "active"]
ExecuteFailed(c) == [c EXCEPT !.tx = "failed"]
Committed(c) == [c EXCEPT !.tx = "committed"]
RolledBack(c) == [c EXCEPT !.tx = "rolledback"]
Closed(c) ==
    [open |-> FALSE,
     tx |-> IF c.tx \in {"active", "failed"} THEN "rolledback" ELSE c.tx]

StorageFaults == {"none", "connect", "execute", "commit"}
ReadFaults == {"none", "connect", "execute", "fetch"}

(***************************************************************************)
(* The outcome record of a vector-store call.                              *)
(***************************************************************************)
NoThreshold == [given |-> FALSE, v |-> 0]
Threshold(x) == [given |-> TRUE, v |-> x]

NoOp ==
    [op |-> "none", raised |-> FALSE, result |-> <<>>, conns |-> <<>>,
     embedCalls |-> 0, outcome |-> "none", failedAt |-> 0, nChunks |-> 0,
     written |-> {}, fault |-> "none", docId |-> "", query |-> <<>>,
     queryVec |-> EmptyVec, filter |-> <<>>, k |-> 0,
     threshold |-> NoThreshold]


(***************************************************************************)
(* Inputs of the vector-store calls.                                       *)
(***************************************************************************)
Alphabet == <<"a", "b", "c", "d">>

\* The text of length n: the first n letters of the alphabet.
TextOf(n) == [i \in 1..n |-> Alphabet[i]]

Texts == {TextOf(n) : n \in 0..MaxTextLen}

ChunkSizes == {1, 2, DEFAULT_MAX_CHUNK_SIZE}

UserIds == {"u1", "u2"}

\* Caller metadata: without parent_id, with an empty one, with a parent_id
\* and a user_id.
Metadatas == {<<>>, [parent_id |-> ""], [user_id |-> "u1", parent_id |-> "p1"]}

OkVectors == {Vec(EMBED_DIM, 1, 1), Vec(EMBED_DIM, 1, -1), Vec(EMBED_DIM, 2, 1)}

WrongDimVector == Vec(3, 1, 1)

\* What the embedding service may answer to one call of an ingestion: a
\* vector of the expected length, or one of the failures.
GoodResponse == VecResponse(Vec(EMBED_DIM, 1, 1))

BadResponses == {ExceptionResponse, NoEmbeddingsResponse, VecResponse(WrongDimVector)}

QueryResponses ==
    {ExceptionResponse, VecResponse(Vec(EMBED_DIM, 1, 1)), VecResponse(Vec(EMBED_DIM, 2, 1))}

(***************************************************************************)
(* add_document                                                            *)
(***************************************************************************)
\* chunks = [text[i:i + max_chunk_size] for i in range(0, len(text), max_chunk_size)]
Chunks(text, max_chunk_size) ==
    LET n == (Len(text) + max_chunk_size - 1) \div max_chunk_size
    IN  [i \in 1..n |->
            SubSeq(text, (i - 1) * max_chunk_size + 1, Min(i * max_chunk_size, Len(text)))]

\* metadata.get("parent_id") is truthy
ParentSupplied(metadata) ==
    "parent_id" \in DOMAIN metadata /\ metadata["parent_id"] # ""

\* chunk_metadata = dict(metadata) with chunk_index and parent_id stamped
ChunkMetadata(metadata, idx, parent) ==
    [key \in DOMAIN metadata \cup {"chunk_index", "parent_id"} |->
        IF key = "chunk_index" THEN idx
        ELSE IF key = "parent_id" THEN parent
        ELSE metadata[key]]

\* INSERT ... ON CONFLICT (id) DO UPDATE SET text, metadata, embedding
Upsert(tbl, id, row) ==
    [x \in DOMAIN tbl \cup {id} |-> IF x = id THEN row ELSE tbl[x]]

\* The inner try/except/finally of add_document for one chunk.
\*  - "connect": _get_connection raises; the handler's conn.rollback() then
\*    raises as well (conn is unbound for the first chunk, and the previous
\*    chunk's closed connection afterwards), the finally clause runs, and the
\*    outer handler returns [].  No connection is opened.
\*  - "execute" / "commit": rollback, return [], and the finally clause closes.
InsertChunk(st, chunk_id, chunk, chunk_metadata, embedding, fault) ==
    IF fault = "connect" THEN [st EXCEPT !.outcome = "storage_failed"]
    ELSE
      LET c == Len(st.conns) + 1
          opened == Append(st.conns, NewConn)
      IN  IF fault = "execute" \/ ~VectorCastOK(embedding) THEN
              [st EXCEPT !.conns = [opened EXCEPT ![c] = Closed(RolledBack(ExecuteFailed(@)))],
                         !.outcome = "storage_failed"]
          ELSE IF fault = "commit" THEN
              [st EXCEPT !.conns = [opened EXCEPT ![c] = Closed(RolledBack(Executed(@)))],
                         !.outcome = "storage_failed"]
          ELSE
              [st EXCEPT !.conns = [opened EXCEPT ![c] = Closed(Committed(Executed(@)))],
                         !.table = Upsert(@, chunk_id,
                                          [text |-> chunk, metadata |-> chunk_metadata,
                                           embedding |-> embedding]),
                         !.written = @ \cup {chunk_id}]

\* A chunk id that does not depend on the draw: every chunk gets the same id.
ChunkIdRepeated(n) == uuid4(1)

\* chunk_id = str(uuid.uuid4()) for the chunk drawn as the n-th uuid
ChunkId(n) == uuid4(n)

\* The for loop of add_document from chunk i (1-based) on.
RECURSIVE AddLoop(_, _, _, _, _, _)
AddLoop(st, i, chunks, metadata, responses, faults) ==
    IF i > Len(chunks) THEN [st EXCEPT !.outcome = "ok"]
    ELSE
      LET chunk_id == ChunkId(st.uuid + 1)
          supplied == ParentSupplied(metadata)
          parent == IF supplied THEN metadata["parent_id"] ELSE uuid4(st.uuid + 2)
          chunk_metadata == ChunkMetadata(metadata, i - 1, parent)
          embedding == embed(responses[i])
          s1 == [st EXCEPT !.uuid = @ + (IF supplied THEN 1 ELSE 2),
                           !.embedCalls = @ + 1]
      IN  IF IsEmptyVec(embedding) THEN
              [s1 EXCEPT !.ids = <<>>, !.outcome = "embed_failed", !.failedAt = i]
          ELSE
            LET s2 == InsertChunk(s1, chunk_id, chunks[i], chunk_metadata,
                                  embedding, faults[i])
            IN  IF s2.outcome = "storage_failed" THEN
                    [s2 EXCEPT !.ids = <<>>, !.failedAt = i]
                ELSE
                    AddLoop([s2 EXCEPT !.ids = Append(@, chunk_id)], i + 1,
                            chunks, metadata, responses, faults)

\* The most uuid4() draws a call over n chunks makes.
UuidDraws(n) == 2 * n

add_document(text, metadata, max_chunk_size, responses, faults) ==
    LET chunks == Chunks(text, max_chunk_size)
        start == [table |-> table, uuid |-> uuidCount, conns |-> <<>>, ids |-> <<>>,
                  embedCalls |-> 0, written |-> {}, outcome |-> "running",
                  failedAt |-> 0]
        fin == AddLoop(start, 1, chunks, metadata, responses, faults)
    IN  /\ uuidCount + UuidDraws(Len(chunks)) <= MaxUuid
        /\ table' = fin.table
        /\ uuidCount' = fin.uuid
        /\ lastOp' = [NoOp EXCEPT !.op = "add_document", !.result = fin.ids,
                                  !.conns = fin.conns, !.embedCalls = fin.embedCalls,
                                  !.outcome = fin.outcome, !.failedAt = fin.failedAt,
                                  !.nChunks = Len(chunks), !.written = fin.written]
        /\ UNCHANGED passVars

(***************************************************************************)
(* delete_document                                                         *)
(***************************************************************************)
\* DELETE FROM aux.embeddings WHERE id = doc_id
DeleteRow(tbl, doc_id) == [x \in DOMAIN tbl \ {doc_id} |-> tbl[x]]

\*  - "connect": _get_connection raises with conn and cur unbound; the
\*    handler's conn.rollback() raises UnboundLocalError and so does the
\*    finally clause's cur.close(): the call raises.
DeleteOutcome(doc_id, fault) ==
    IF fault = "connect" THEN
        [table |-> table, conns |-> <<>>, raised |-> TRUE]
    ELSE IF fault = "execute" THEN
        [table |-> table, conns |-> <<Closed(RolledBack(ExecuteFailed(NewConn)))>>,
         raised |-> FALSE]
    ELSE IF fault = "commit" THEN
        [table |-> table, conns |-> <<Closed(RolledBack(Executed(NewConn)))>>,
         raised |-> FALSE]
    ELSE
        [table |-> DeleteRow(table, doc_id),
         conns |-> <<Closed(Committed(Executed(NewConn)))>>, raised |-> FALSE]

delete_document(doc_id, fault) ==
    LET out == DeleteOutcome(doc_id, fault)
    IN  /\ table' = out.table
        /\ lastOp' = [NoOp EXCEPT !.op = "delete_document", !.raised = out.raised,
                                  !.conns = out.conns, !.fault = fault,
                                  !.docId = doc_id,
                                  !.outcome = IF fault = "none" THEN "ok"
                                              ELSE "storage_failed"]
        /\ UNCHANGED <<uuidCount, passVars>>

(***************************************************************************)
(* Reading rows back as Documents.                                         *)
(***************************************************************************)
\* jsonb ->> key : the value as text
JsonText(key, value) == IF key = "chunk_index" THEN ToString(value) ELSE value

\* metadata ->> key = value  (NULL, hence not true, when the key is absent)
MetaEquals(metadata, key, value) ==
    key \in DOMAIN metadata /\ JsonText(key, metadata[key]) = value

\* metadata["id"] = doc_id; Document(page_content=text, metadata=metadata)
Document(tbl, id) ==
    [page_content |-> tbl[id].text,
     metadata |-> [key \in DOMAIN tbl[id].metadata \cup {"id"} |->
                      IF key = "id" THEN id ELSE tbl[id].metadata[key]]]

(***************************************************************************)
(* get_documents_by_user                                                   *)
(***************************************************************************)
\* The rows of the SELECT, in one of the orders the store may give them.
UserRowOrders(tbl, user_id) ==
    Permutations_({id \in DOMAIN tbl : MetaEquals(tbl[id].metadata, "user_id", user_id)})

\*  - "connect": the handler returns []; nothing was opened.
\*  - "execute" / "fetch": the handler returns []; cur.close() and
\*    conn.close() (lines 149-150) are skipped.
get_documents_by_user(user_id, fault, order) ==
    /\ order \in UserRowOrders(table, user_id)
    /\ lastOp' =
         [NoOp EXCEPT
            !.op = "get_documents_by_user",
            !.fault = fault,
            !.outcome = IF fault = "none" THEN "ok" ELSE "storage_failed",
            !.result = IF fault = "none"
                       THEN [i \in 1..Len(order) |-> Document(table, order[i])]
                       ELSE <<>>,
            !.conns = IF fault = "connect" THEN <<>>
                      ELSE IF fault = "execute" THEN <<ExecuteFailed(NewConn)>>
                      ELSE IF fault = "fetch" THEN <<Executed(NewConn)>>
                      ELSE <<Closed(Executed(NewConn))>>]
    /\ UNCHANGED <<table, uuidCount, passVars>>


(***************************************************************************)
(* search_with_score                                                       *)
(***************************************************************************)
\* A guard that lets every query through.
QueryNeverEmpty(query) == FALSE

\* "not query"
QueryIsEmpty(query) == Len(query) = 0

\* WHERE 1=1 [AND metadata->> key = value]*
FilterMatches(metadata, filter) ==
    \A key \in DOMAIN filter : MetaEquals(metadata, key, filter[key])

\* [AND (1 - (embedding <=> q)) >= score_threshold], only when one is given
ThresholdMatches(similarity, threshold) ==
    threshold.given => similarity >= threshold.v

\* The ids of the rows the WHERE clause keeps.
Selected(tbl, queryVec, filter, threshold) ==
    {id \in DOMAIN tbl :
        /\ FilterMatches(tbl[id].metadata, filter)
        /\ ThresholdMatches(Similarity(tbl[id].embedding, queryVec), threshold)}

\* ORDER BY similarity ASC, as if the distance were the score.
OrderedBySimilarityAsc(tbl, queryVec, s) ==
    \A i \in 1..(Len(s) - 1) :
        Similarity(tbl[s[i]].embedding, queryVec) <= Similarity(tbl[s[i + 1]].embedding, queryVec)

\* ORDER BY similarity DESC: s lists its rows by non-increasing similarity.
OrderedBySimilarityDesc(tbl, queryVec, s) ==
    \A i \in 1..(Len(s) - 1) :
        Similarity(tbl[s[i]].embedding, queryVec) >= Similarity(tbl[s[i + 1]].embedding, queryVec)

\* LIMIT k
Limit(s, k) == SubSeq(s, 1, Min(k, Len(s)))

\* The row lists the query may return: rows of equal similarity come in any order.
QueryResults(tbl, queryVec, filter, k, threshold) ==
    {Limit(s, k) : s \in {o \in Permutations_(Selected(tbl, queryVec, filter, threshold)) :
                             OrderedBySimilarityDesc(tbl, queryVec, o)}}

\* docs_with_scores.append((doc, similarity))
DocsWithScores(tbl, queryVec, ids) ==
    [i \in 1..Len(ids) |->
        [doc |-> Document(tbl, ids[i]),
         score |-> Similarity(tbl[ids[i]].embedding, queryVec)]]

\*  - empty query: returns [] before the try block.
\*  - "connect": _get_connection raises with conn and cur unbound; the handler
\*    returns [], and the finally clause's cur.close() raises
\*    UnboundLocalError, which replaces the return: the call raises.
\*  - "execute" (or a query vector the cast rejects) / "fetch": the handler
\*    returns [] and the finally clause closes cursor and connection.
search_with_score(query, filter, k, threshold, response, fault, ids) ==
    LET queryVec == embed(response)
        executeFails == fault = "execute" \/ ~VectorCastOK(queryVec)
        succeeds == fault = "none" /\ ~executeFails
    IN  /\ succeeds /\ ~QueryIsEmpty(query) =>
              ids \in QueryResults(table, queryVec, filter, k, threshold)
        /\ ~(succeeds /\ ~QueryIsEmpty(query)) => ids = <<>>
        /\ lastOp' =
             IF QueryIsEmpty(query) THEN
                 [NoOp EXCEPT !.op = "search_with_score", !.query = query,
                              !.filter = filter, !.k = k, !.threshold = threshold,
                              !.outcome = "empty_query"]
             ELSE
                 [NoOp EXCEPT
                    !.op = "search_with_score", !.query = query, !.filter = filter,
                    !.k = k, !.threshold = threshold, !.fault = fault,
                    !.embedCalls = 1, !.queryVec = queryVec,
                    !.raised = (fault = "connect"),
                    !.outcome = IF succeeds THEN "ok" ELSE "storage_failed",
                    !.result = DocsWithScores(table, queryVec, ids),
                    !.conns = IF fault = "connect" THEN <<>>
                              ELSE IF executeFails THEN <<Closed(ExecuteFailed(NewConn))>>
                              ELSE <<Closed(Executed(NewConn))>>]
        /\ UNCHANGED <<table, uuidCount, passVars>>

(***************************************************************************)
(* Specifications of the vector store.                                     *)
(***************************************************************************)
NotCalled == [t |-> "notcalled"]

\* The parts of the program before their first call.
StoreIdle == table = <<>> /\ uuidCount = 0 /\ lastOp = NoOp
NormIdle == normIn = NotCalled /\ normOut = NotCalled
CleanIdle == cleanIn = NotCalled /\ cleanOut = <<>>
FilesIdle == files = <<>> /\ saveLog = <<>>
CollectIdle == run = NotCalled /\ cli = NotCalled
EmbedIdle == embIn = NotCalled /\ embOut = NotCalled
ListIdle == listIn = NotCalled /\ listOut = NotCalled

StoreInit ==
    /\ StoreIdle
    /\ NormIdle
    /\ CleanIdle
    /\ FilesIdle
    /\ CollectIdle
    /\ EmbedIdle
    /\ ListIdle

DocIds == {uuid4(n) : n \in 1..MaxUuid}

\* The store's calls are made one after the other: a call starts once the
\* caller has taken the previous call's outcome.
Idle == lastOp.op = "none"

TakeOutcome ==
    /\ ~Idle
    /\ lastOp' = NoOp
    /\ UNCHANGED <<table, uuidCount, passVars>>

\* The loop of add_document stops at the first chunk that fails, so the
\* environment of a call is the position and kind of the first embedding
\* failure and of the first storage fault (0: none).
ResponsesFor(n, failure) ==
    [i \in 1..n |-> IF i = failure.at THEN failure.kind ELSE GoodResponse]

FaultsFor(n, failure) ==
    [i \in 1..n |-> IF i = failure.at THEN failure.kind ELSE "none"]

FirstFailures(n, kinds, none) ==
    {[at |-> 0, kind |-> none]} \cup {[at |-> i, kind |-> x] : i \in 1..n, x \in kinds}

AddDocument ==
    /\ Idle
    /\ \E text \in Texts, metadata \in Metadatas, max_chunk_size \in ChunkSizes :
        LET n == Len(Chunks(text, max_chunk_size))
        IN  \E embedFailure \in FirstFailures(n, BadResponses, GoodResponse),
               storageFault \in FirstFailures(n, StorageFaults \ {"none"}, "none") :
                add_document(text, metadata, max_chunk_size,
                             ResponsesFor(n, embedFailure), FaultsFor(n, storageFault))

DeleteDocument ==
    /\ Idle
    /\ \E doc_id \in DocIds, fault \in StorageFaults : delete_document(doc_id, fault)

GetDocumentsByUser ==
    /\ Idle
    /\ \E user_id \in UserIds, fault \in ReadFaults :
        \E order \in UserRowOrders(table, user_id) :
            get_documents_by_user(user_id, fault, order)

\* Ingestion, deletion and listing, with every embedding and storage fault.
StoreNext == AddDocument \/ DeleteDocument \/ GetDocumentsByUser \/ TakeOutcome

StoreSpec == StoreInit /\ [][StoreNext]_vars

\* Searching: single-chunk documents are ingested without faults, then queried.
Queries == {<<>>, <<"q">>}

Filters == {<<>>, [user_id |-> "u1"], [user_id |-> "u2"], [user_id |-> "u1", chunk_index |-> "0"]}

Thresholds == {NoThreshold, Threshold(0), Threshold(1)}

SearchMetadatas == {[parent_id |-> "p1"], [user_id |-> "u1", parent_id |-> "p1"]}

IngestForSearch ==
    /\ Idle
    /\ Cardinality(DOMAIN table) < MaxRows
    /\ \E metadata \in SearchMetadatas, v \in OkVectors :
          add_document(TextOf(1), metadata, DEFAULT_MAX_CHUNK_SIZE,
                       <<VecResponse(v)>>, <<"none">>)

\* A search the storage serves.
SearchWithScore ==
    /\ Idle
    /\ \E query \in Queries, filter \in Filters, k \in 0..MaxK, threshold \in Thresholds,
          response \in QueryResponses :
        \E ids \in {<<>>} \cup QueryResults(table, embed(response), filter, k, threshold) :
            search_with_score(query, filter, k, threshold, response, "none", ids)

\* A search during which the storage fails.
SearchWithScoreFault ==
    /\ Idle
    /\ \E query \in Queries, filter \in {<<>>, [user_id |-> "u1"]},
          response \in QueryResponses, fault \in ReadFaults \ {"none"} :
            search_with_score(query, filter, MaxK, NoThreshold, response, fault, <<>>)

SearchNext == IngestForSearch \/ SearchWithScore \/ SearchWithScoreFault \/ TakeOutcome

SearchSpec == StoreInit /\ [][SearchNext]_vars

(***************************************************************************)
(* JSON values as Python sees them.  A value is tagged: null, int, str,    *)
(* obj (a dict: a function from keys to values) or list.  Raise is the     *)
(* outcome of an expression that raised.                                   *)
(***************************************************************************)
JNull == [t |-> "null"]
JInt(n) == [t |-> "int", i |-> n]
JStr(s) == [t |-> "str", s |-> s]
JObj(f) == [t |-> "obj", o |-> f]
JList(s) == [t |-> "list", l |-> s]
Raise == [t |-> "raise"]

EmptyObj == JObj(<<>>)
EmptyList == JList(<<>>)

IsObj(j) == j.t = "obj"
IsRaise(j) == j.t = "raise"

\* bool(j)
Truthy(j) ==
    CASE j.t = "null" -> FALSE
      [] j.t = "int" -> j.i # 0
      [] j.t = "str" -> j.s # ""
      [] j.t = "obj" -> DOMAIN j.o # {}
      [] j.t = "list" -> Len(j.l) > 0
      [] OTHER -> FALSE

\* a or b (b is evaluated only when a is falsy)
Or(a, b) == IF IsRaise(a) THEN Raise ELSE IF Truthy(a) THEN a ELSE b

\* d.get(key, default): AttributeError unless d is a dict
DictGet(d, key, default) ==
    IF ~IsObj(d) THEN Raise
    ELSE IF key \in DOMAIN d.o THEN d.o[key] ELSE default

\* d.get(key)
Get(d, key) == DictGet(d, key, JNull)

\* safe_get(d, path, default=None), path given as its parts
RECURSIVE SafeGetFrom(_, _, _)
SafeGetFrom(cur, parts, i) ==
    IF i > Len(parts) THEN cur
    ELSE IF IsObj(cur) /\ parts[i] \in DOMAIN cur.o
         THEN SafeGetFrom(cur.o[parts[i]], parts, i + 1)
         ELSE JNull

safe_get(d, parts) == SafeGetFrom(d, parts, 1)

\* "for x in v": the elements of a list; nothing for an empty dict or str;
\* anything else raises in the loop (None and numbers are not iterable, and
\* the keys of a dict or the characters of a str have no .get).
Elements(v) ==
    IF v.t = "list" THEN v
    ELSE IF (v.t = "obj" /\ DOMAIN v.o = {}) \/ (v.t = "str" /\ v.s = "") THEN EmptyList
    ELSE Raise

\* [F(x) for x in v], raising when the iteration or any F(x) raises
MapList(F(_), v) ==
    LET elems == Elements(v)
    IN  IF IsRaise(elems) THEN Raise
        ELSE LET res == [i \in 1..Len(elems.l) |-> F(elems.l[i])]
             IN  IF \E i \in 1..Len(res) : IsRaise(res[i]) THEN Raise ELSE JList(res)

\* str.strip() on the names of the model
Strip(s) ==
    CASE s = " " -> ""
      [] s = " Shots " -> "Shots"
      [] OTHER -> s

(***************************************************************************)
(* scraper.py: the match normalizer.                                       *)
(***************************************************************************)
\* extract_team_ref: TeamRef(id, name, slug)
extract_team_ref(team) ==
    IF ~IsObj(team) THEN Raise
    ELSE [t |-> "teamref", id |-> Get(team, "id"),
          name |-> Or(Get(team, "name"), Get(team, "shortName")),
          slug |-> Get(team, "slug")]

\* An item whose name keeps its surrounding blanks.
StatItemUnstripped(it) ==
    IF ~IsObj(it) THEN Raise
    ELSE LET name == Or(Or(Get(it, "name"), Get(it, "title")), JStr(""))
         IN  IF name.t # "str" THEN Raise
             ELSE JObj([name |-> JStr(name.s), home |-> Get(it, "home"),
                        away |-> Get(it, "away")])

\* One item of a statistics group: its stripped name and both values.
StatItem(it) ==
    IF ~IsObj(it) THEN Raise
    ELSE LET name == Or(Or(Get(it, "name"), Get(it, "title")), JStr(""))
         IN  IF name.t # "str" THEN Raise
             ELSE JObj([name |-> JStr(Strip(name.s)), home |-> Get(it, "home"),
                        away |-> Get(it, "away")])

\* The items of one group, in order.
GroupItems(g) ==
    IF ~IsObj(g) THEN Raise
    ELSE MapList(StatItem, Or(Or(Get(g, "statisticsItems"), Get(g, "items")), EmptyList))

\* The items of all groups, in the order the loops visit them.
RECURSIVE Concat(_, _)
Concat(lists, i) ==
    IF i > Len(lists) THEN <<>> ELSE lists[i].l \o Concat(lists, i + 1)

\* out[side]: each named item's value of the side, a later item replacing an
\* earlier one of the same name; then xG when the payload has the block.
SideStats(items, payload, side) ==
    LET named == {i \in 1..Len(items) : items[i].o["name"].s # ""}
        names == {items[i].o["name"].s : i \in named}
        last(n) == CHOOSE i \in named :
                      /\ items[i].o["name"].s = n
                      /\ \A j \in named : items[j].o["name"].s = n => j <= i
        hasXg == "expectedGoals" \in DOMAIN payload.o
    IN  JObj([n \in names \cup (IF hasXg THEN {"xG"} ELSE {}) |->
                 IF hasXg /\ n = "xG" THEN Get(payload.o["expectedGoals"], side)
                 ELSE items[last(n)].o[side]])

\* flatten_team_stats
flatten_team_stats(stats_payload) ==
    IF ~IsObj(stats_payload) THEN Raise
    ELSE
      LET groups == Or(Or(Get(stats_payload, "statistics"), Get(stats_payload, "groups")),
                       EmptyList)
          perGroup == MapList(GroupItems, groups)
      IN  IF IsRaise(perGroup) THEN Raise
          ELSE IF "expectedGoals" \in DOMAIN stats_payload.o
                  /\ ~IsObj(stats_payload.o["expectedGoals"]) THEN Raise
          ELSE LET items == Concat(perGroup.l, 1)
               IN  JObj([home |-> SideStats(items, stats_payload, "home"),
                         away |-> SideStats(items, stats_payload, "away")])

\* One entry of lineup_to_players
LineupPlayer(pl) ==
    IF ~IsObj(pl) THEN Raise
    ELSE
      LET player == Or(Get(pl, "player"), EmptyObj)
          stat == Or(Get(pl, "statistics"), EmptyObj)
      IN  IF ~IsObj(player) THEN Raise
          ELSE JObj([id |-> Get(player, "id"),
                     name |-> Get(player, "name"),
                     slug |-> Get(player, "slug"),
                     shirtNumber |-> Get(pl, "shirtNumber"),
                     position |-> Get(pl, "position"),
                     captain |-> Get(pl, "captain"),
                     rating |-> Or(safe_get(pl, <<"rating", "rating">>), Get(pl, "rating")),
                     statistics |-> Or(stat, JNull)])

\* lineup_to_players
lineup_to_players(block) ==
    IF ~Truthy(block) THEN EmptyList
    ELSE IF ~IsObj(block) THEN Raise
    ELSE MapList(LineupPlayer, DictGet(block, "players", EmptyList))

\* The "home" / "away" entry of "teams"
TeamBlock(team, lu, team_stats, side) ==
    JObj([id |-> team.id,
          name |-> team.name,
          slug |-> team.slug,
          formation |-> safe_get(lu, <<"formation">>),
          coach |-> safe_get(lu, <<"coach", "name">>),
          startingXI |-> lineup_to_players(Or(safe_get(lu, <<"startingLineups">>), EmptyObj)),
          bench |-> lineup_to_players(Or(safe_get(lu, <<"substitutes">>), EmptyObj)),
          statistics |-> DictGet(team_stats, side, EmptyObj)])

\* event = core.get("event", core)
EventOf(core) == DictGet(core, "event", core)

\* The core payload as passed, envelope included.
RawCoreAsPassed(core) == core

\* raw.core: "core": event
RawCore(core) == EventOf(core)

\* home_score / away_score
ScoreOfSide(event, key) ==
    Or(safe_get(event, <<key, "current">>), safe_get(event, <<key, "normaltime">>))

\* A score block that leaves out the sides without a score.
ScoreBlockWithoutNulls(event) ==
    LET sides == [home |-> ScoreOfSide(event, "homeScore"),
                  away |-> ScoreOfSide(event, "awayScore")]
    IN  JObj([side \in {x \in {"home", "away"} : sides[x].t # "null"} |-> sides[side]])

\* "score": {"home", "away", "penalties": {"home", "away"}}
ScoreBlock(event) ==
    JObj([home |-> ScoreOfSide(event, "homeScore"),
          away |-> ScoreOfSide(event, "awayScore"),
          penalties |-> JObj([home |-> safe_get(event, <<"homeScore", "penalties">>),
                              away |-> safe_get(event, <<"awayScore", "penalties">>)])])

\* "incidents": (incidents or {}).get("incidents") or incidents or []
IncidentsField(incidents) ==
    Or(Or(DictGet(Or(incidents, EmptyObj), "incidents", JNull), incidents), EmptyList)

\* build_match_json: the canonical match, or Raise when an expression raises
build_match_json(core, lineups, statistics, incidents) ==
    LET event == EventOf(core)
        home_team == extract_team_ref(DictGet(event, "homeTeam", EmptyObj))
        away_team == extract_team_ref(DictGet(event, "awayTeam", EmptyObj))
        round_info == Or(Or(Get(event, "roundInfo"), Get(event, "round")), EmptyObj)
        season == Or(Get(event, "season"), EmptyObj)
        tournament == Or(Or(Get(event, "tournament"), Get(event, "uniqueTournament")), EmptyObj)
        team_stats == IF Truthy(statistics) THEN flatten_team_stats(statistics)
                      ELSE JObj([home |-> EmptyObj, away |-> EmptyObj])
        lu_home == Or(safe_get(Or(lineups, EmptyObj), <<"home">>), EmptyObj)
        lu_away == Or(safe_get(Or(lineups, EmptyObj), <<"away">>), EmptyObj)
        roundBlock == JObj([id |-> Get(round_info, "round"),
                            name |-> Or(Or(Get(round_info, "name"), Get(round_info, "round")),
                                        JNull)])
        seasonBlock == JObj([id |-> Get(season, "id"), name |-> Get(season, "name"),
                             year |-> Get(season, "year")])
        tournamentBlock ==
            JObj([id |-> Or(safe_get(tournament, <<"uniqueTournament", "id">>),
                            Get(tournament, "id")),
                  name |-> Or(Get(tournament, "name"),
                              safe_get(tournament, <<"uniqueTournament", "name">>)),
                  category |-> safe_get(tournament, <<"category", "name">>)])
        homeBlock == IF IsRaise(home_team) \/ IsRaise(team_stats) THEN Raise
                     ELSE TeamBlock(home_team, lu_home, team_stats, "home")
        awayBlock == IF IsRaise(away_team) \/ IsRaise(team_stats) THEN Raise
                     ELSE TeamBlock(away_team, lu_away, team_stats, "away")
        incidentsField == IncidentsField(incidents)
        raises ==
            \/ IsRaise(event) \/ IsRaise(home_team) \/ IsRaise(away_team)
            \/ IsRaise(round_info) \/ ~IsObj(round_info)
            \/ IsRaise(season) \/ ~IsObj(season)
            \/ IsRaise(tournament) \/ ~IsObj(tournament)
            \/ IsRaise(team_stats)
            \/ \E side \in {homeBlock, awayBlock} :
                  \/ IsRaise(side)
                  \/ IsRaise(side.o["startingXI"]) \/ IsRaise(side.o["bench"])
            \/ IsRaise(incidentsField)
    IN  IF raises THEN Raise
        ELSE JObj([eventId |-> Get(event, "id"),
                   slug |-> Get(event, "slug"),
                   status |-> Or(safe_get(event, <<"status", "description">>),
                                 safe_get(event, <<"status", "type">>)),
                   startTimestamp |-> Get(event, "startTimestamp"),
                   referee |-> Get(event, "referee"),
                   venue |-> Get(event, "venue"),
                   round |-> roundBlock,
                   season |-> seasonBlock,
                   tournament |-> tournamentBlock,
                   score |-> ScoreBlock(event),
                   teams |-> JObj([home |-> homeBlock, away |-> awayBlock]),
                   incidents |-> incidentsField,
                   raw |-> JObj([core |-> RawCore(core), lineups |-> lineups,
                                 statistics |-> statistics, incidents |-> incidents])])

(***************************************************************************)
(* Properties of the vector store.                                         *)
(***************************************************************************)

\* C1: when the embedding of any sub-chunk fails, add_document returns an
\* empty id list and the store holds no row written by that call.
C1_EmbedFailureWritesNothing ==
    (lastOp.op = "add_document" /\ lastOp.outcome = "embed_failed") =>
        /\ lastOp.result = <<>>
        /\ \A id \in lastOp.written : id \notin DOMAIN table

\* C2: search_with_score returns an empty list and raises nothing whenever
\* a storage fault occurs at any step (connection, query, reading rows).
C2_SearchFaultReturnsEmpty ==
    (lastOp.op = "search_with_score" /\ Len(lastOp.query) > 0 /\ lastOp.fault # "none") =>
        /\ ~lastOp.raised
        /\ lastOp.result = <<>>

\* C3: delete_document never raises, whatever storage step fails, and
\* leaves every other row of the store unchanged.
C3_DeleteNeverRaises ==
    [][lastOp'.op = "delete_document" =>
          /\ ~lastOp'.raised
          /\ \A id \in DOMAIN table \ {lastOp'.docId} :
                id \in DOMAIN table' /\ table'[id] = table[id]]_vars

\* C4: every connection a vector-store operation opened is committed or
\* rolled back and closed when the operation returns.
Settled(c) == c.tx \in {"idle", "committed", "rolledback"}

C4_ConnectionsReleased ==
    \A i \in 1..Len(lastOp.conns) : ~lastOp.conns[i].open /\ Settled(lastOp.conns[i])

\* C5: a successful add_document adds one new row per sub-chunk, each under
\* an id no row had before, and leaves every earlier row as it was.
C5_AddInsertsFreshRows ==
    [][(lastOp'.op = "add_document" /\ lastOp'.outcome = "ok") =>
          /\ Len(lastOp'.result) = lastOp'.nChunks
          /\ \A i, j \in 1..Len(lastOp'.result) :
                i # j => lastOp'.result[i] # lastOp'.result[j]
          /\ \A i \in 1..Len(lastOp'.result) : lastOp'.result[i] \notin DOMAIN table
          /\ DOMAIN table' = DOMAIN table \cup Range(lastOp'.result)
          /\ \A id \in DOMAIN table : table'[id] = table[id]]_vars

\* Two rows of the same text and metadata under different ids, after a
\* successful second ingestion.
C5_Witness ==
    /\ lastOp.op = "add_document" /\ lastOp.outcome = "ok" /\ lastOp.nChunks > 0
    /\ \E a, b \in DOMAIN table :
          /\ a # b
          /\ b \in lastOp.written /\ a \notin lastOp.written
          /\ table[a].text = table[b].text
          /\ table[a].metadata = table[b].metadata

\* C6: an empty query returns an empty result without an embedding call and
\* without a storage connection.
C6_EmptyQueryShortCircuits ==
    (lastOp.op = "search_with_score" /\ Len(lastOp.query) = 0) =>
        /\ lastOp.result = <<>>
        /\ ~lastOp.raised
        /\ lastOp.embedCalls = 0
        /\ lastOp.conns = <<>>

C6_Witness ==
    /\ lastOp.op = "search_with_score" /\ Len(lastOp.query) = 0
    /\ lastOp.result = <<>>
    /\ DOMAIN table # {}

\* C7: for a non-empty query the result has at most k pairs in
\* non-increasing score order; every returned record is a stored row that
\* matches every key/value pair of the filter and reaches the threshold when
\* one is given; and no stored row that satisfies filter and threshold is
\* left out while a lower-scored one is returned.
ScoreOf(id) == Similarity(table[id].embedding, lastOp.queryVec)

TextOfValue(key, value) == IF key = "chunk_index" THEN ToString(value) ELSE value

Satisfies(id) ==
    /\ \A key \in DOMAIN lastOp.filter :
          /\ key \in DOMAIN table[id].metadata
          /\ TextOfValue(key, table[id].metadata[key]) = lastOp.filter[key]
    /\ lastOp.threshold.given => ScoreOf(id) >= lastOp.threshold.v

ReturnedIds == {lastOp.result[i].doc.metadata["id"] : i \in 1..Len(lastOp.result)}

C7_SearchResult ==
    (lastOp.op = "search_with_score" /\ Len(lastOp.query) > 0) =>
        LET r == lastOp.result
        IN  /\ Len(r) <= lastOp.k
            /\ \A i \in 1..(Len(r) - 1) : r[i].score >= r[i + 1].score
            /\ Cardinality(ReturnedIds) = Len(r)
            /\ \A i \in 1..Len(r) :
                  LET id == r[i].doc.metadata["id"]
                  IN  /\ id \in DOMAIN table
                      /\ r[i].doc.page_content = table[id].text
                      /\ r[i].score = ScoreOf(id)
                      /\ Satisfies(id)
                      /\ \A key \in DOMAIN lastOp.filter :
                            /\ key \in DOMAIN r[i].doc.metadata
                            /\ TextOfValue(key, r[i].doc.metadata[key]) = lastOp.filter[key]
                      /\ lastOp.threshold.given => r[i].score >= lastOp.threshold.v
            /\ \A id \in DOMAIN table \ ReturnedIds :
                  Satisfies(id) => \A i \in 1..Len(r) : r[i].score >= ScoreOf(id)

\* A search that a filter and a threshold narrow and LIMIT cuts: a row is
\* filtered out, a row stays below the threshold, and a satisfying row is
\* left out of the k returned.
C7_Witness ==
    /\ lastOp.op = "search_with_score" /\ Len(lastOp.query) > 0
    /\ lastOp.outcome = "ok"
    /\ DOMAIN lastOp.filter # {} /\ lastOp.threshold.given
    /\ Len(lastOp.result) = lastOp.k /\ lastOp.k > 0
    /\ \E id \in DOMAIN table \ ReturnedIds : Satisfies(id)
    /\ \E id \in DOMAIN table : "user_id" \notin DOMAIN table[id].metadata
    /\ \E id \in DOMAIN table :
          lastOp.threshold.given /\ ScoreOf(id) < lastOp.threshold.v

(***************************************************************************)
(* The normalizer applied to bounded sets of payloads.                     *)
(***************************************************************************)
Absent == [t |-> "absent"]

\* The dict holding the entries of f that are not Absent.
MkObj(f) == JObj([key \in {x \in DOMAIN f : f[x].t # "absent"} |-> f[key]])

TeamA == JObj([id |-> JInt(1), name |-> JStr("Alpha"), shortName |-> JStr("ALP"),
               slug |-> JStr("alpha-fc")])
TeamB == JObj([id |-> JInt(2), shortName |-> JStr("BET")])

HomeTeams == {Absent, JNull, EmptyObj, TeamA, TeamB}
AwayTeams == {Absent, TeamB}

HomeScores ==
    {Absent, JNull,
     JObj([current |-> JInt(0), normaltime |-> JInt(1)]),
     JObj([current |-> JInt(0)]),
     JObj([current |-> JInt(0), normaltime |-> JInt(0)]),
     JObj([current |-> JInt(2), normaltime |-> JInt(1), penalties |-> JInt(4)]),
     JObj([normaltime |-> JInt(1)])}
AwayScores == {Absent, JObj([current |-> JInt(1)]), JObj([current |-> JInt(0)])}

\* An event with or without its descriptive fields.
Event(home, away, homeScore, awayScore, rich) ==
    MkObj([homeTeam |-> home, awayTeam |-> away,
           homeScore |-> homeScore, awayScore |-> awayScore,
           id |-> IF rich THEN JInt(7) ELSE Absent,
           slug |-> IF rich THEN JStr("alpha-beta") ELSE Absent,
           startTimestamp |-> IF rich THEN JInt(1700000000) ELSE Absent,
           status |-> IF rich THEN JObj([type |-> JStr("finished")]) ELSE Absent,
           roundInfo |-> IF rich THEN JObj([round |-> JInt(3)]) ELSE Absent,
           season |-> IF rich THEN JObj([id |-> JInt(72034), year |-> JStr("2025")]) ELSE JNull,
           tournament |-> IF rich THEN JObj([name |-> JStr("Serie A"),
                                             uniqueTournament |-> JObj([id |-> JInt(325)])])
                          ELSE Absent])

Events ==
    {Event(h, a, hs, as, rich) :
        h \in HomeTeams, a \in AwayTeams, hs \in HomeScores, as \in AwayScores,
        rich \in BOOLEAN}

RichEvent == Event(TeamA, TeamB, JObj([current |-> JInt(2), normaltime |-> JInt(1),
                                       penalties |-> JInt(4)]),
                   JObj([current |-> JInt(1)]), TRUE)

\* Core payloads: the bare event, the event in its envelope, an envelope
\* without an event.
Cores ==
    Events
    \cup {JObj([event |-> e]) : e \in {RichEvent, EmptyObj, Event(JNull, TeamB, Absent, Absent, TRUE)}}
    \cup {JObj([event |-> RichEvent, extra |-> JInt(1)]), JObj([event |-> JNull])}

Player(id, stats) ==
    MkObj([player |-> JObj([id |-> JInt(id), name |-> JStr("P")]),
           shirtNumber |-> JInt(id), statistics |-> stats,
           rating |-> JObj([rating |-> JInt(7)])])

LineupsPayloads ==
    {JNull, EmptyObj,
     JObj([home |-> JObj([formation |-> JStr("4-4-2"),
                          startingLineups |->
                              JObj([players |-> JList(<<Player(10, JObj([goals |-> JInt(1)])),
                                                        Player(11, Absent)>>)])]),
           away |-> JObj([players |-> JList(<<Player(20, EmptyObj)>>)])]),
     JObj([home |-> JObj([substitutes |-> JObj([players |-> JNull])])]),
     JObj([home |-> JNull, away |-> JNull])}

StatItems ==
    JList(<<JObj([name |-> JStr(" Shots "), home |-> JInt(5), away |-> JInt(3)]),
            JObj([title |-> JStr("Possession"), home |-> JInt(60), away |-> JInt(40)]),
            JObj([name |-> JStr(" "), home |-> JInt(1), away |-> JInt(1)])>>)

StatisticsPayloads ==
    {JNull, EmptyObj,
     JObj([statistics |-> JList(<<JObj([statisticsItems |-> StatItems])>>)]),
     JObj([groups |-> JList(<<JObj([items |-> StatItems])>>),
           expectedGoals |-> JObj([home |-> JInt(2), away |-> JInt(1)])]),
     JObj([statistics |-> JList(<<>>), expectedGoals |-> JNull])}

IncidentsPayloads ==
    {JNull, EmptyObj,
     JObj([incidents |-> JList(<<>>)]),
     JObj([incidents |-> JList(<<JObj([incidentType |-> JStr("goal")])>>)])}

Args(core, lineups, statistics, incidents) ==
    [t |-> "args", core |-> core, lineups |-> lineups, statistics |-> statistics,
     incidents |-> incidents]

\* Every core without the optional payloads, and every combination of the
\* optional payloads for a bare, an empty and an enveloped core.
NormInputs ==
    {Args(c, JNull, JNull, JNull) : c \in Cores}
    \cup {Args(c, l, s, i) :
             c \in {RichEvent, EmptyObj, JObj([event |-> RichEvent])},
             l \in LineupsPayloads, s \in StatisticsPayloads, i \in IncidentsPayloads}

NormInit ==
    /\ StoreIdle
    /\ normIn \in NormInputs
    /\ normOut = NotCalled
    /\ CleanIdle
    /\ FilesIdle
    /\ CollectIdle
    /\ EmbedIdle
    /\ ListIdle

BuildMatchJson ==
    /\ normOut.t = "notcalled"
    /\ normOut' = build_match_json(normIn.core, normIn.lineups, normIn.statistics,
                                   normIn.incidents)
    /\ UNCHANGED <<normIn, storeVars, cleanVars, fileVars, collectVars, embedVars, listVars>>

NormNext == BuildMatchJson

NormSpec == NormInit /\ [][NormNext]_vars

(***************************************************************************)
(* Properties of the normalizer.                                           *)
(***************************************************************************)
Returned == normOut.t = "obj"

HasKeys(j, keys) == j.t = "obj" /\ keys \subseteq DOMAIN j.o

\* C8: every canonical match build_match_json returns has the keys eventId,
\* teams.home, teams.away, score.home and score.away, whatever the payloads
\* hold, also when all four are empty or absent.
C8_KeysAlwaysPresent ==
    Returned =>
        /\ HasKeys(normOut, {"eventId", "teams", "score"})
        /\ HasKeys(normOut.o["teams"], {"home", "away"})
        /\ HasKeys(normOut.o["score"], {"home", "away"})

\* The call on an empty core without the other payloads: the keys are there
\* and hold null.
C8_Witness ==
    /\ Returned
    /\ normIn.core = EmptyObj
    /\ normIn.lineups.t = "null" /\ normIn.statistics.t = "null"
    /\ normIn.incidents.t = "null"
    /\ normOut.o["eventId"].t = "null"
    /\ normOut.o["score"].o["home"].t = "null"
    /\ normOut.o["teams"].o["home"].o["id"].t = "null"

\* C9: build_match_json returns a canonical match and never fails, for
\* absent payloads and for partially filled ones, nested objects missing or
\* null included.
C9_NeverFails == normOut.t # "notcalled" => Returned

\* C10 as stated: raw holds the four payloads as passed, raw.core being the
\* core payload with its envelope.
C10_RawVerbatim ==
    Returned =>
        /\ normOut.o["raw"].o["core"] = normIn.core
        /\ normOut.o["raw"].o["lineups"] = normIn.lineups
        /\ normOut.o["raw"].o["statistics"] = normIn.statistics
        /\ normOut.o["raw"].o["incidents"] = normIn.incidents

\* C10 (amended): raw.core is the event the normalizer reads: the core
\* payload itself when it has no "event" key, the value of that key when it
\* has one; raw.lineups, raw.statistics and raw.incidents are the inputs.
C10_RawHoldsEvent ==
    Returned =>
        /\ normOut.o["raw"].o["core"] =
              (IF "event" \in DOMAIN normIn.core.o THEN normIn.core.o["event"]
               ELSE normIn.core)
        /\ normOut.o["raw"].o["lineups"] = normIn.lineups
        /\ normOut.o["raw"].o["statistics"] = normIn.statistics
        /\ normOut.o["raw"].o["incidents"] = normIn.incidents

\* An enveloped core with a sibling key, normalized together with lineups.
C10_Witness ==
    /\ Returned
    /\ "event" \in DOMAIN normIn.core.o
    /\ normIn.lineups.t = "obj" /\ DOMAIN normIn.lineups.o # {}
    /\ normOut.o["raw"].o["core"] = normIn.core.o["event"]

\* The score object of a side in the event the normalizer reads.
SourceScore(key) == safe_get(EventOf(normIn.core), <<key>>)

CarriesCurrent(sc) == IsObj(sc) /\ "current" \in DOMAIN sc.o /\ sc.o["current"].t = "int"

\* C11: score.home and score.away of the canonical match are the source's
\* current score whenever the source carries one, 0 included; the
\* normal-time score is used only when the current score is absent.
C11_ScoreIsCurrent ==
    Returned =>
        \A side \in {<<"home", "homeScore">>, <<"away", "awayScore">>} :
            LET sc == SourceScore(side[2])
                out == normOut.o["score"].o[side[1]]
            IN  /\ CarriesCurrent(sc) => out = sc.o["current"]
                /\ (IsObj(sc) /\ "current" \notin DOMAIN sc.o) => out = Get(sc, "normaltime")

(***************************************************************************)
(* cleaner.py: JsonCleaner.clean_data.  The tree is changed in place and   *)
(* returned; the model gives the tree as it is after the call.             *)
(***************************************************************************)
RECURSIVE clean_data(_, _)

\* A cleaner that stops deleting in a dict after its first deletion.
KeptKeysAfterFirstRemoval(keys, keys_to_remove) ==
    IF keys \cap keys_to_remove = {} THEN keys
    ELSE keys \ {CHOOSE key \in keys \cap keys_to_remove : TRUE}

\* A cleaner that empties a dict in which it finds a key to remove.
KeptKeysWithoutSiblings(keys, keys_to_remove) ==
    IF keys \cap keys_to_remove = {} THEN keys ELSE {}

\* for key in list(data.keys()): if key in self.keys_to_remove: del data[key]
KeptKeys(keys, keys_to_remove) == keys \ keys_to_remove

\* A cleaner that does not look into lists.
CleanListUntouched(items, keys_to_remove) == items

\* for item in data: self.clean_data(item)
CleanList(items, keys_to_remove) ==
    [i \in 1..Len(items) |-> clean_data(items[i], keys_to_remove)]

clean_data(data, keys_to_remove) ==
    IF data.t = "obj" THEN
        JObj([key \in KeptKeys(DOMAIN data.o, keys_to_remove) |->
                 clean_data(data.o[key], keys_to_remove)])
    ELSE IF data.t = "list" THEN JList(CleanList(data.l, keys_to_remove))
    ELSE data

(***************************************************************************)
(* The cleaner applied to bounded trees.                                   *)
(***************************************************************************)
TreeKeys == {"slug", "ar", "name"}
RemovalSets == SUBSET TreeKeys

Leaf == JInt(1)
Leaves == {Leaf, JNull, JStr("slug")}

\* The trees that hold t one level down: under one key, beside other keys,
\* and in a list.
Wraps(t) ==
    {JObj(key :> t) : key \in TreeKeys}
    \cup {JObj([slug |-> Leaf, ar |-> Leaf, name |-> t]),
          JObj([slug |-> t, name |-> t]),
          JList(<<t>>), JList(<<Leaf, t>>)}

RECURSIVE Trees(_)
Trees(depth) ==
    IF depth = 0 THEN Leaves \cup {EmptyObj, EmptyList}
    ELSE Trees(depth - 1) \cup UNION {Wraps(t) : t \in Trees(depth - 1)}

CleanArgs(data, keys_to_remove) ==
    [t |-> "cleanargs", data |-> data, keys |-> keys_to_remove]

CleanInit ==
    /\ StoreIdle
    /\ NormIdle
    /\ cleanIn \in {CleanArgs(d, K) : d \in Trees(MaxDepth), K \in RemovalSets}
    /\ cleanOut = <<>>
    /\ FilesIdle
    /\ CollectIdle
    /\ EmbedIdle
    /\ ListIdle

\* One call of clean_data, on the tree as the previous call left it.
CleanData ==
    /\ Len(cleanOut) < MaxPasses
    /\ cleanOut' = Append(cleanOut,
                          clean_data(IF cleanOut = <<>> THEN cleanIn.data
                                     ELSE cleanOut[Len(cleanOut)],
                                     cleanIn.keys))
    /\ UNCHANGED <<cleanIn, storeVars, normVars, fileVars, collectVars, embedVars, listVars>>

CleanNext == CleanData

CleanSpec == CleanInit /\ [][CleanNext]_vars

(***************************************************************************)
(* Properties of the cleaner.                                              *)
(***************************************************************************)
\* The keys of the mappings of a tree, at every depth.
RECURSIVE KeysOf(_)
KeysOf(tree) ==
    IF tree.t = "obj" THEN
        DOMAIN tree.o \cup UNION {KeysOf(tree.o[key]) : key \in DOMAIN tree.o}
    ELSE IF tree.t = "list" THEN UNION {KeysOf(tree.l[i]) : i \in 1..Len(tree.l)}
    ELSE {}

\* C12: the result of clean_data holds no key of the removal set, at any
\* depth, whatever the tree and the removal set.
C12_NoRemovedKeyLeft ==
    \A i \in 1..Len(cleanOut) : KeysOf(cleanOut[i]) \cap cleanIn.keys = {}

\* A removed key below a list below a mapping: three levels down.
C12_Witness ==
    /\ Len(cleanOut) >= 1
    /\ cleanIn.data.t = "obj" /\ "name" \in DOMAIN cleanIn.data.o
    /\ cleanIn.data.o["name"].t = "list" /\ Len(cleanIn.data.o["name"].l) = 2
    /\ cleanIn.data.o["name"].l[2].t = "obj"
    /\ "slug" \in DOMAIN cleanIn.data.o["name"].l[2].o
    /\ cleanIn.keys = {"slug", "ar"}
    /\ cleanOut[1] # cleanIn.data

\* C13: clean_data applied to its own result gives that result again.
C13_CleanIdempotent ==
    \A i \in 2..Len(cleanOut) : cleanOut[i] = cleanOut[i - 1]

\* A second pass over a tree that the first pass changed in two places of
\* one mapping.
C13_Witness ==
    /\ Len(cleanOut) >= 2
    /\ cleanIn.data.t = "obj" /\ {"slug", "ar"} \subseteq DOMAIN cleanIn.data.o
    /\ cleanIn.keys = {"slug", "ar"}
    /\ cleanOut[1] # cleanIn.data
    /\ cleanOut[2] = cleanOut[1]

(***************************************************************************)
(* scraper.py: slugify.  A text is handled as the sequence of its          *)
(* characters.                                                             *)
(***************************************************************************)
\* The characters of the texts of the model.
CharsOf(text) ==
    CASE text = "alpha-fc" -> <<"a", "l", "p", "h", "a", "-", "f", "c">>
      [] text = "Alpha FC" -> <<"A", "l", "p", "h", "a", " ", "F", "C">>
      [] text = "ALP" -> <<"A", "L", "P">>
      [] text = "Alpha" -> <<"A", "l", "p", "h", "a">>
      [] text = "BET" -> <<"B", "E", "T">>
      [] text = "beta" -> <<"b", "e", "t", "a">>
      [] text = "Beta" -> <<"B", "e", "t", "a">>
      [] text = "home" -> <<"h", "o", "m", "e">>
      [] text = "away" -> <<"a", "w", "a", "y">>
      [] text = " São Paulo " -> <<" ", "S", "ã", "o", " ", "P", "a", "u", "l", "o", " ">>
      [] text = "Internacional de Limeira" -> <<"I", "n", "t", "e", "r", "n", "a", "c", "i", "o", "n", "a", "l", " ", "d", "e", " ", "L", "i", "m", "e", "i", "r", "a">>
      [] text = "Internacional de Santa Maria" -> <<"I", "n", "t", "e", "r", "n", "a", "c", "i", "o", "n", "a", "l", " ", "d", "e", " ", "S", "a", "n", "t", "a", " ", "M", "a", "r", "i", "a">>
      [] text = "" -> <<>>

RECURSIVE JoinChars(_)
JoinChars(cs) == IF cs = <<>> THEN "" ELSE Head(cs) \o JoinChars(Tail(cs))

LowerCase == <<"a", "b", "c", "d", "e", "f", "g", "h", "i", "j", "k", "l", "m",
               "n", "o", "p", "q", "r", "s", "t", "u", "v", "w", "x", "y", "z">>
UpperCase == <<"A", "B", "C", "D", "E", "F", "G", "H", "I", "J", "K", "L", "M",
               "N", "O", "P", "Q", "R", "S", "T", "U", "V", "W", "X", "Y", "Z">>
Digits == <<"0", "1", "2", "3", "4", "5", "6", "7", "8", "9">>

\* [a-z0-9]
IsSlugChar(c) == c \in Range(LowerCase) \cup Range(Digits)

\* str.lower() on one character ("ã" stays "ã")
Lower(c) ==
    IF c \in Range(UpperCase)
    THEN LowerCase[CHOOSE i \in 1..Len(UpperCase) : UpperCase[i] = c]
    ELSE c

RECURSIVE DropLeading(_, _)
DropLeading(cs, drop) ==
    IF cs # <<>> /\ Head(cs) \in drop THEN DropLeading(Tail(cs), drop) ELSE cs

RECURSIVE DropTrailing(_, _)
DropTrailing(cs, drop) ==
    IF cs # <<>> /\ cs[Len(cs)] \in drop
    THEN DropTrailing(SubSeq(cs, 1, Len(cs) - 1), drop)
    ELSE cs

\* str.strip(chars)
StripChars(cs, drop) == DropTrailing(DropLeading(cs, drop), drop)

RECURSIVE DropLeadingNonSlug(_)
DropLeadingNonSlug(cs) ==
    IF cs # <<>> /\ ~IsSlugChar(Head(cs)) THEN DropLeadingNonSlug(Tail(cs)) ELSE cs

\* re.sub(r"[^a-z0-9]+", "-", text)
RECURSIVE ReplaceNonSlugRuns(_)
ReplaceNonSlugRuns(cs) ==
    IF cs = <<>> THEN <<>>
    ELSE IF IsSlugChar(Head(cs)) THEN <<Head(cs)>> \o ReplaceNonSlugRuns(Tail(cs))
    ELSE <<"-">> \o ReplaceNonSlugRuns(DropLeadingNonSlug(Tail(cs)))

\* re.sub(r"-+", "-", text)
RECURSIVE CollapseHyphens(_)
CollapseHyphens(cs) ==
    IF cs = <<>> THEN <<>>
    ELSE IF Head(cs) = "-" THEN <<"-">> \o CollapseHyphens(DropLeading(Tail(cs), {"-"}))
    ELSE <<Head(cs)>> \o CollapseHyphens(Tail(cs))

\* text[:maxlen] if maxlen else text
Truncate(cs, maxlen) ==
    IF maxlen # 0 THEN SubSeq(cs, 1, Min(maxlen, Len(cs))) ELSE cs

slugify(text, maxlen) ==
    LET stripped == StripChars(CharsOf(text), {" "})
        lowered == [i \in 1..Len(stripped) |-> Lower(stripped[i])]
        hyphened == StripChars(CollapseHyphens(ReplaceNonSlugRuns(lowered)), {"-"})
    IN  JoinChars(Truncate(hyphened, maxlen))

(***************************************************************************)
(* scraper.py: save_match_json.  A path is the sequence of its components  *)
(* below base_dir.                                                         *)
(***************************************************************************)
\* int(round_id)
IntOf(j) ==
    CASE j.t = "int" -> j
      [] j.t = "str" /\ j.s = "3" -> JInt(3)
      [] OTHER -> Raise

\* str(value) inside an f-string
StrOf(j) ==
    CASE j.t = "int" -> ToString(j.i)
      [] j.t = "str" -> j.s
      [] OTHER -> "None"

\* {n:02d}
Pad2(n) == IF n < 10 THEN "0" \o ToString(n) ELSE ToString(n)

\* datetime.fromtimestamp(ts, tz=timezone.utc): the days since 1970-01-01
UtcDay(ts) == ts \div 86400

\* The civil date of a day number: [y, m, d].
CivilDate(day) ==
    LET z == day + 719468
        era == z \div 146097
        doe == z - era * 146097
        yoe == (doe - doe \div 1460 + doe \div 36524 - doe \div 146096) \div 365
        doy == doe - (365 * yoe + yoe \div 4 - yoe \div 100)
        mp == (5 * doy + 2) \div 153
        d == doy - (153 * mp + 2) \div 5 + 1
        m == IF mp < 10 THEN mp + 3 ELSE mp - 9
        y == yoe + era * 400 + (IF m <= 2 THEN 1 ELSE 0)
    IN  [y |-> y, m |-> m, d |-> d]

\* A file name that keeps the time of day.
DateStrWithTime(ts) == ToString(ts)

\* dt.strftime("%Y-%m-%d")
DateStr(ts) ==
    LET date == CivilDate(UtcDay(ts))
    IN  ToString(date.y) \o "-" \o Pad2(date.m) \o "-" \o Pad2(date.d)

\* slugify(slug or name or default, 16)
TeamSlug(match, side, default) ==
    LET text == Or(Or(safe_get(match, <<"teams", side, "slug">>),
                      safe_get(match, <<"teams", side, "name">>)), JStr(default))
    IN  IF text.t = "str" THEN JStr(slugify(text.s, 16)) ELSE Raise

\* out_path, relative to base_dir; Raise when a conversion fails.
OutPath(match) ==
    LET round_id == IntOf(Or(safe_get(match, <<"round", "id">>), JInt(0)))
        ts == Get(match, "startTimestamp")
        home == TeamSlug(match, "home", "home")
        away == TeamSlug(match, "away", "away")
        eid == StrOf(Get(match, "eventId"))
    IN  IF IsRaise(round_id) \/ IsRaise(home) \/ IsRaise(away) THEN Raise
        ELSE IF ~Truthy(ts) THEN JList(<<"rounds", "r" \o Pad2(round_id.i), eid \o ".json">>)
        ELSE IF ts.t # "int" THEN Raise
        ELSE JList(<<"rounds", "r" \o Pad2(round_id.i),
                     DateStr(ts.i) \o "_r" \o Pad2(round_id.i) \o "_" \o home.s
                         \o "-vs-" \o away.s \o "_" \o eid \o ".json">>)

\* What is left of a file when json.dump fails after open(out_path, "w").
PartialFile == [t |-> "partial"]

WriteFaults == {"none", "open", "dump"}

\* with open(out_path, "w") as f: json.dump(match, f)
WriteFile(fs, path, content, fault) ==
    CASE fault = "open" -> fs
      [] fault = "dump" -> [p \in DOMAIN fs \cup {path} |-> IF p = path THEN PartialFile ELSE fs[p]]
      [] OTHER -> [p \in DOMAIN fs \cup {path} |-> IF p = path THEN content ELSE fs[p]]

\* save_match_json(base_dir, match): the path it returns, whether it raised,
\* and the files after it.
save_match_json(fs, match, fault) ==
    LET out_path == OutPath(match)
    IN  IF IsRaise(out_path) THEN [raised |-> TRUE, path |-> <<>>, files |-> fs]
        ELSE [raised |-> fault # "none", path |-> out_path.l,
              files |-> WriteFile(fs, out_path.l, match, fault)]

(***************************************************************************)
(* save_match_json applied to bounded sets of canonical matches.           *)
(***************************************************************************)
Team(slug, name) == JObj([slug |-> slug, name |-> name])

\* The fields of a canonical match that save_match_json reads, and status.
Match(round_id, ts, home, away, eid, status) ==
    JObj([eventId |-> eid, startTimestamp |-> ts, status |-> JStr(status),
          round |-> JObj([id |-> round_id, name |-> JNull]),
          teams |-> JObj([home |-> home, away |-> away])])

SaveRounds == {JInt(3), JNull, JStr("3"), JInt(12), JStr("x")}
SaveTimestamps ==
    {JInt(1700000000), JInt(1700000001), JInt(1700086400), JInt(0), JInt(1), JNull}
SaveHomes ==
    {Team(JStr("alpha-fc"), JStr("Alpha FC")), Team(JStr("alpha-fc"), JStr("ALP")),
     Team(JNull, JStr("Alpha FC")), Team(JNull, JStr("ALP")), Team(JNull, JNull),
     Team(JStr(""), JStr(" São Paulo ")),
     Team(JNull, JStr("Internacional de Limeira")),
     Team(JNull, JStr("Internacional de Santa Maria"))}
SaveAways == {Team(JStr("beta"), JStr("Beta")), Team(JNull, JNull)}
SaveEventIds == {JInt(7), JInt(8), JNull}
SaveStatuses == {"finished", "inprogress"}

\* One match, and the matches that differ from it in the round, in the
\* timestamp, in the home team, or in several of the other fields.
SaveMatches ==
    {Match(r, JInt(1700000000), Team(JStr("alpha-fc"), JStr("Alpha FC")),
           Team(JStr("beta"), JStr("Beta")), JInt(7), "finished") : r \in SaveRounds}
    \cup {Match(JInt(3), ts, Team(JStr("alpha-fc"), JStr("Alpha FC")),
                 Team(JStr("beta"), JStr("Beta")), JInt(7), "finished") :
             ts \in SaveTimestamps}
    \cup {Match(JInt(3), JInt(1700000000), h, Team(JStr("beta"), JStr("Beta")), JInt(7),
                 "finished") : h \in SaveHomes}
    \cup {Match(JInt(3), ts, Team(JStr("alpha-fc"), JStr("Alpha FC")), a, e, s) :
             ts \in {JInt(1700000000), JNull}, a \in SaveAways, e \in SaveEventIds,
             s \in SaveStatuses}

SaveInit ==
    /\ StoreIdle
    /\ NormIdle
    /\ CleanIdle
    /\ FilesIdle
    /\ CollectIdle
    /\ EmbedIdle
    /\ ListIdle

\* One call of save_match_json.
SaveMatchJson ==
    /\ Len(saveLog) < MaxSaves
    /\ \E match \in SaveMatches, fault \in WriteFaults :
        LET res == save_match_json(files, match, fault)
        IN  /\ fault # "none" => match = Match(JInt(3), JInt(1700000000),
                                               Team(JStr("alpha-fc"), JStr("Alpha FC")),
                                               Team(JStr("beta"), JStr("Beta")),
                                               JInt(7), "finished")
            /\ files' = res.files
            /\ saveLog' = Append(saveLog, [match |-> match, fault |-> fault,
                                           raised |-> res.raised, path |-> res.path])
    /\ UNCHANGED <<storeVars, normVars, cleanVars, collectVars, embedVars, listVars>>

SaveNext == SaveMatchJson

SaveSpec == SaveInit /\ [][SaveNext]_vars

(***************************************************************************)
(* Properties of save_match_json.                                          *)
(***************************************************************************)
\* The calls that got as far as a path, and those that created their file.
HasPath(i) == saveLog[i].path # <<>>
Opened(i) == HasPath(i) /\ saveLog[i].fault # "open"

\* The date of the start timestamp: its UTC day, when there is a timestamp.
StartDate(match) ==
    LET ts == Get(match, "startTimestamp")
    IN  IF ts.t = "int" THEN JInt(UtcDay(ts.i)) ELSE JNull

\* round, start date, home slug, away slug, eventId
FiveFields(match) ==
    <<safe_get(match, <<"round", "id">>), StartDate(match),
      safe_get(match, <<"teams", "home", "slug">>),
      safe_get(match, <<"teams", "away", "slug">>), Get(match, "eventId")>>

\* C14 as stated: matches that agree on round, start date, home slug, away
\* slug and eventId are written to the same path.
C14_SamePathForSameFive ==
    \A i, j \in 1..Len(saveLog) :
        (HasPath(i) /\ HasPath(j) /\ FiveFields(saveLog[i].match) = FiveFields(saveLog[j].match))
            => saveLog[i].path = saveLog[j].path

\* The start date that reaches the file name: none for a timestamp of 0.
StartDateUsed(match) ==
    LET ts == Get(match, "startTimestamp")
    IN  IF Truthy(ts) THEN StartDate(match) ELSE JNull

\* The text the file name's team part is made from: the slug, or the name
\* when the slug is missing or empty.
TeamText(match, side) ==
    Or(safe_get(match, <<"teams", side, "slug">>), safe_get(match, <<"teams", side, "name">>))

FiveFieldsUsed(match) ==
    <<safe_get(match, <<"round", "id">>), StartDateUsed(match),
      TeamText(match, "home"), TeamText(match, "away"), Get(match, "eventId")>>

\* C14 (amended): matches that agree on round, start date (none for a
\* timestamp that is missing or 0), the home and away text of the file name
\* (slug, or name when there is no slug) and eventId are written to the same
\* path; a repeated save overwrites, so there are as many files as distinct
\* paths written.
C14_SamePathForSameNameParts ==
    /\ \A i, j \in 1..Len(saveLog) :
        (HasPath(i) /\ HasPath(j)
            /\ FiveFieldsUsed(saveLog[i].match) = FiveFieldsUsed(saveLog[j].match))
            => saveLog[i].path = saveLog[j].path
    /\ DOMAIN files = {saveLog[i].path : i \in {n \in 1..Len(saveLog) : Opened(n)}}

\* Two saves of matches that differ in status or in the time of day only:
\* one file, holding the second match.
C14_Witness ==
    /\ Len(saveLog) = 2
    /\ saveLog[1].fault = "none" /\ saveLog[2].fault = "none"
    /\ HasPath(1) /\ HasPath(2)
    /\ saveLog[1].match # saveLog[2].match
    /\ Get(saveLog[1].match, "startTimestamp") # Get(saveLog[2].match, "startTimestamp")
    /\ FiveFieldsUsed(saveLog[1].match) = FiveFieldsUsed(saveLog[2].match)
    /\ Cardinality(DOMAIN files) = 1
    /\ files[saveLog[2].path] = saveLog[2].match

(***************************************************************************)
(* embedder.py: the chunk builder, for one persisted match file.           *)
(***************************************************************************)
JBool(b) == [t |-> "bool", b |-> b]

\* d.get(key, default).get(key2): Raise when the first value is not a dict
GetGet(d, key, key2) ==
    LET inner == DictGet(d, key, EmptyObj)
    IN  IF IsObj(inner) THEN Get(inner, key2) ELSE Raise

\* {k: v for k, v in metadata.items() if v is not None}
DropNulls(f) == JObj([key \in {x \in DOMAIN f : f[x].t # "null"} |-> f[key]])

\* os.path.basename, a path being the sequence of its components
Basename(path) == IF path = <<>> THEN "" ELSE path[Len(path)]

\* _create_player_chunk: the chunk [content, metadata], or Raise
create_player_chunk(player_data, match_context) ==
    LET player_info == DictGet(player_data, "player", EmptyObj)
        player_stats == DictGet(player_data, "statistics", EmptyObj)
        ctx(key) == Get(match_context, key)
    IN  IF ~IsObj(player_info) THEN Raise
        ELSE
          [t |-> "chunk",
           content |->
             JObj([matchInfo |->
                       JObj([eventId |-> ctx("eventId"), matchDate |-> ctx("matchDate"),
                             season |-> ctx("season"), round |-> ctx("round"),
                             homeTeam |-> ctx("homeTeamName"),
                             awayTeam |-> ctx("awayTeamName"),
                             finalScore |-> JStr(StrOf(ctx("homeScore")) \o " x "
                                                     \o StrOf(ctx("awayScore")))]),
                   playerPerformance |->
                       JObj([playerId |-> Get(player_info, "id"),
                             playerName |-> Get(player_info, "name"),
                             playerTeam |-> ctx("playerTeamName"),
                             position |-> Get(player_data, "position"),
                             jerseyNumber |-> Get(player_data, "jerseyNumber"),
                             isSubstitute |-> DictGet(player_data, "substitute", JBool(FALSE)),
                             statistics |-> player_stats])]),
           metadata |->
             DropNulls([eventId |-> ctx("eventId"),
                        playerId |-> Get(player_info, "id"),
                        playerName |-> Get(player_info, "name"),
                        teamId |-> ctx("playerTeamId"),
                        teamName |-> ctx("playerTeamName"),
                        season |-> ctx("season"),
                        round |-> ctx("round"),
                        sourceFile |-> JStr(Basename(ctx("sourceFile").l)),
                        parent_id |-> JStr(StrOf(ctx("eventId")))])]

\* base_context plus the player's team
PlayerContext(base_context, team_info) ==
    JObj([key \in DOMAIN base_context.o \cup {"playerTeamName", "playerTeamId"} |->
             CASE key = "playerTeamName" -> Get(team_info, "name")
               [] key = "playerTeamId" -> Get(team_info, "id")
               [] OTHER -> base_context.o[key]])

\* A variant that asks only whether the entry has the key.
HasStatisticsKey(player_data) == "statistics" \in DOMAIN player_data.o

\* if not player_data.get('statistics'): continue
HasStatistics(player_data) == Truthy(Get(player_data, "statistics"))

\* for player_data in players: the add_document calls made, and whether the
\* loop was left by an exception.
RECURSIVE PlayerLoop(_, _, _, _, _)
PlayerLoop(players, i, base_context, team_info, calls) ==
    IF i > Len(players) THEN [calls |-> calls, raised |-> FALSE]
    ELSE IF ~IsObj(players[i]) THEN [calls |-> calls, raised |-> TRUE]
    ELSE IF ~HasStatistics(players[i])
         THEN PlayerLoop(players, i + 1, base_context, team_info, calls)
    ELSE LET chunk == create_player_chunk(players[i], PlayerContext(base_context, team_info))
         IN  IF IsRaise(chunk) THEN [calls |-> calls, raised |-> TRUE]
             ELSE PlayerLoop(players, i + 1, base_context, team_info, Append(calls, chunk))

\* for team_type, team_info in teams_to_process.items()
TeamLoop(lineups_data, team_type, base_context, team_info, calls) ==
    IF ~IsObj(lineups_data) THEN [calls |-> calls, raised |-> TRUE]
    ELSE LET side == DictGet(lineups_data, team_type, EmptyObj)
         IN  IF ~IsObj(side) THEN [calls |-> calls, raised |-> TRUE]
             ELSE LET players == DictGet(side, "players", EmptyList)
                  IN  IF ~Truthy(players) THEN [calls |-> calls, raised |-> FALSE]
                      ELSE IF players.t # "list" THEN [calls |-> calls, raised |-> TRUE]
                      ELSE PlayerLoop(players.l, 1, base_context, team_info, calls)

\* The body of the loop of process_and_embed_directory for one file that
\* json.load has decoded: the calls of add_document it makes, the count it
\* prints and the status it reports.
ProcessMatchFile(file_path, match_data) ==
    LET Failed(calls) == [status |-> "error", calls |-> calls, count |-> 0]
        raw_data == DictGet(match_data, "raw", EmptyObj)
        core_data == DictGet(raw_data, "core", EmptyObj)
        lineups_data == DictGet(raw_data, "lineups", EmptyObj)
        season_info == DictGet(core_data, "season", EmptyObj)
        home_team_info == DictGet(core_data, "homeTeam", EmptyObj)
        away_team_info == DictGet(core_data, "awayTeam", EmptyObj)
        home_score == DictGet(core_data, "homeScore", EmptyObj)
        away_score == DictGet(core_data, "awayScore", EmptyObj)
        base_context ==
            JObj([eventId |-> Get(core_data, "id"),
                  matchDate |-> Get(core_data, "startTimestamp"),
                  season |-> Get(season_info, "year"),
                  round |-> GetGet(core_data, "roundInfo", "round"),
                  homeTeamName |-> Get(home_team_info, "name"),
                  awayTeamName |-> Get(away_team_info, "name"),
                  homeScore |-> Get(home_score, "current"),
                  awayScore |-> Get(away_score, "current"),
                  sourceFile |-> JList(file_path)])
        home == TeamLoop(lineups_data, "home", base_context, home_team_info, <<>>)
        away == TeamLoop(lineups_data, "away", base_context, away_team_info, home.calls)
    IN  IF ~IsObj(match_data) THEN Failed(<<>>)
        ELSE IF ~Truthy(raw_data) THEN [status |-> "skipped", calls |-> <<>>, count |-> 0]
        ELSE IF ~IsObj(raw_data) \/ ~IsObj(core_data) THEN Failed(<<>>)
        ELSE IF \E v \in {season_info, home_team_info, away_team_info, home_score, away_score} :
                    ~IsObj(v) THEN Failed(<<>>)
        ELSE IF IsRaise(base_context.o["round"]) THEN Failed(<<>>)
        ELSE IF home.raised THEN Failed(home.calls)
        ELSE IF away.raised THEN Failed(away.calls)
        ELSE [status |-> IF Len(away.calls) > 0 THEN "ok" ELSE "empty",
              calls |-> away.calls, count |-> Len(away.calls)]

(***************************************************************************)
(* The chunk builder applied to persisted matches.                         *)
(***************************************************************************)
\* Lineup entries: with statistics, without the key, with empty or null
\* statistics, and one whose "player" is null.
EmbPlayers ==
    {Player(10, JObj([goals |-> JInt(1)])), Player(11, Absent), Player(12, EmptyObj),
     Player(13, JNull),
     JObj([player |-> JNull, statistics |-> JObj([goals |-> JInt(2)])])}

PlayerLists == UNION {[1..n -> EmbPlayers] : n \in 0..MaxPlayers}

\* raw.lineups as the API gives it: {"home": {"players": [...]}, "away": ...}
EmbLineups ==
    {JObj([home |-> JObj([players |-> JList(h)]), away |-> JObj([players |-> JList(a)])]) :
        h \in PlayerLists, a \in PlayerLists}
    \cup {JNull, EmptyObj, JObj([home |-> JNull]),
          JObj([away |-> JObj([players |-> JList(<<Player(10, JObj([goals |-> JInt(1)]))>>)])])}

\* A core whose season is null: the normalizer accepts it.
SeasonlessEvent == Event(TeamA, TeamB, Absent, Absent, FALSE)

\* The files under data/: the matches build_match_json returns for these
\* payloads, as save_match_json writes them, and two files that are no match.
PersistedMatches ==
    {m \in {build_match_json(c, l, JNull, JNull) :
                c \in {RichEvent, JObj([event |-> RichEvent])}, l \in EmbLineups}
           \cup {build_match_json(c, l, JNull, JNull) :
                    c \in {SeasonlessEvent, EmptyObj},
                    l \in {lu \in EmbLineups : lu.t = "obj" =>
                              \A side \in DOMAIN lu.o :
                                  lu.o[side].t = "obj" => Len(lu.o[side].o["players"].l) <= 1}} :
        ~IsRaise(m)}

OtherFiles == {JList(<<JObj([eventId |-> JInt(7)])>>), JObj([eventId |-> JInt(7)])}

EmbFile(path, data) == [t |-> "file", path |-> path, data |-> data]

EmbedInit ==
    /\ StoreIdle
    /\ NormIdle
    /\ CleanIdle
    /\ FilesIdle
    /\ CollectIdle
    /\ ListIdle
    /\ embIn \in {EmbFile(<<"data", "rounds", "r01", "m.json">>, d) : d \in PersistedMatches \cup OtherFiles}
    /\ embOut = NotCalled

\* One iteration of the loop of process_and_embed_directory.
ProcessFile ==
    /\ embOut = NotCalled
    /\ embOut' = ProcessMatchFile(embIn.path, embIn.data)
    /\ UNCHANGED <<embIn, storeVars, normVars, cleanVars, fileVars, collectVars, listVars>>

EmbedNext == ProcessFile

EmbedSpec == EmbedInit /\ [][EmbedNext]_vars

(***************************************************************************)
(* Properties of the chunk builder.                                        *)
(***************************************************************************)
Handled == embOut # NotCalled

IsPersistedMatch == embIn.data \in PersistedMatches

\* The player entries of one side of raw.lineups that carry a non-empty
\* statistics object, in order.
RECURSIVE WithStats(_)
WithStats(players) ==
    IF players = <<>> THEN <<>>
    ELSE (IF IsObj(Head(players)) /\ IsObj(Get(Head(players), "statistics"))
             /\ Truthy(Get(Head(players), "statistics"))
          THEN <<Head(players)>> ELSE <<>>) \o WithStats(Tail(players))

SidePlayers(side) ==
    LET players == safe_get(embIn.data, <<"raw", "lineups", side, "players">>)
    IN  IF players.t = "list" THEN players.l ELSE <<>>

StatPlayers == WithStats(SidePlayers("home")) \o WithStats(SidePlayers("away"))

Resp(body) == [t |-> "resp", body |-> body]
HttpError == [t |-> "HTTPError"]
ConnectionError == [t |-> "ConnectionError"]
KeyboardInterrupt == [t |-> "KeyboardInterrupt"]

\* What a call gives: the value returned, or the exception that left it, and
\* the number of requests it sent.
Return(v, n) == [exc |-> "none", v |-> v, requests |-> n]
Throw(exc, n) == [exc |-> exc, v |-> JNull, requests |-> n]

\* for p in paths: try: data = self._get(p); items = data.get(key) or
\* data.get(key2) or []; if items: return items; except HTTPError: continue
RECURSIVE FirstNonEmpty(_, _, _, _)
FirstNonEmpty(outcomes, i, key, key2) ==
    IF i > Len(outcomes) THEN Return(EmptyList, Len(outcomes))
    ELSE IF outcomes[i].t = "HTTPError" THEN FirstNonEmpty(outcomes, i + 1, key, key2)
    ELSE IF outcomes[i].t = "resp"
         THEN LET data == outcomes[i].body
                  items == Or(Or(Get(data, key), Get(data, key2)), EmptyList)
              IN  IF IsRaise(items) THEN Throw("AttributeError", i)
                  ELSE IF Truthy(items) THEN Return(items, i)
                  ELSE FirstNonEmpty(outcomes, i + 1, key, key2)
    ELSE Throw(outcomes[i].t, i)

get_rounds(api) == FirstNonEmpty(api.rounds, 1, "rounds", "data")

\* A variant that asks the fallback endpoint first.
EventsBySeasonFallbackFirst(api) ==
    FirstNonEmpty(<<api.season[2], api.season[1]>>, 1, "events", "matches")

get_events_by_season(api) == FirstNonEmpty(api.season, 1, "events", "matches")

\* The round id is formatted into the path: f".../round/{round_id}/events"
get_events_by_round(api, round_id) ==
    FirstNonEmpty(IF StrOf(round_id) \in DOMAIN api.byRound
                  THEN api.byRound[StrOf(round_id)]
                  ELSE <<HttpError, HttpError>>,
                  1, "events", "matches")

(***************************************************************************)
(* collect_matches, lines 387-418: the rounds and their events.            *)
(***************************************************************************)
\* safe_get(ev, "roundInfo.round") or safe_get(ev, "round.round") or 0
RoundOfEvent(ev) ==
    Or(Or(safe_get(ev, <<"roundInfo", "round">>), safe_get(ev, <<"round", "round">>)),
       JInt(0))

\* r["id"] = rid; r["events"] = r_events
RoundWith(r, rid, r_events) ==
    JObj([key \in DOMAIN r.o \cup {"id", "events"} |->
             CASE key = "id" -> rid
               [] key = "events" -> JList(r_events)
               [] OTHER -> r.o[key]])

\* sorted(round_map.items())
RECURSIVE Sorted(_)
Sorted(S) ==
    IF S = {} THEN <<>>
    ELSE LET least == CHOOSE x \in S : \A y \in S : x <= y
         IN  <<least>> \o Sorted(S \ {least})

EventsOfRound(events, rid) == SelectSeq(events, LAMBDA ev : RoundOfEvent(ev) = rid)

\* The pseudo-rounds built from the season's events (lines 395-399).
PseudoRounds(events) ==
    IF \E i \in 1..Len(events) : IsRaise(IntOf(RoundOfEvent(events[i])))
    THEN Throw("ValueError", 0)
    ELSE LET ids == Sorted({IntOf(RoundOfEvent(events[i])).i : i \in 1..Len(events)})
         IN  Return([k \in 1..Len(ids) |->
                        JObj([id |-> JInt(ids[k]),
                              name |-> JStr("Round " \o ToString(ids[k])),
                              events |-> JList(EventsOfRound(events, JInt(ids[k])))])], 0)

\* for r in rounds: the events of each round (lines 402-413).
RECURSIVE FillRounds(_, _, _, _)
FillRounds(api, rounds, i, filled) ==
    IF i > Len(rounds) THEN Return(filled, 0)
    ELSE IF ~IsObj(rounds[i]) THEN Throw("AttributeError", 0)
    ELSE LET r == rounds[i]
             rid == Or(Get(r, "id"), Get(r, "round"))
             by_round == get_events_by_round(api, rid)
             all_events == get_events_by_season(api)
         IN  IF by_round.exc # "none" THEN Throw(by_round.exc, 0)
             ELSE IF Truthy(by_round.v)
                  THEN FillRounds(api, rounds, i + 1,
                                  Append(filled, RoundWith(r, rid, by_round.v.l)))
             ELSE IF all_events.exc # "none" THEN Throw(all_events.exc, 0)
             ELSE FillRounds(api, rounds, i + 1,
                             Append(filled, RoundWith(r, rid, EventsOfRound(all_events.v.l, rid))))

\* rounds = [r for r in rounds if a <= int(r.get("id", 0)) <= b]
InRange(r, only_rounds) ==
    LET n == IntOf(DictGet(r, "id", JInt(0)))
    IN  only_rounds[1] <= n.i /\ n.i <= only_rounds[2]

FilterRounds(rounds, only_rounds) ==
    IF only_rounds = <<>> THEN Return(rounds, 0)
    ELSE IF \E i \in 1..Len(rounds) : IsRaise(IntOf(DictGet(rounds[i], "id", JInt(0))))
         THEN Throw("TypeError", 0)
    ELSE Return(SelectSeq(rounds, LAMBDA r : InRange(r, only_rounds)), 0)

\* Lines 387-418: the rounds to process, or the exception that ends the run.
DiscoverRounds(api, only_rounds) ==
    LET listed == get_rounds(api)
        events == get_events_by_season(api)
        found ==
            IF listed.exc # "none" THEN Throw(listed.exc, 0)
            ELSE IF Truthy(listed.v) THEN FillRounds(api, listed.v.l, 1, <<>>)
            ELSE IF events.exc # "none" THEN Throw(events.exc, 0)
            ELSE IF ~Truthy(events.v) THEN Throw("RuntimeError", 0)
            ELSE PseudoRounds(events.v.l)
    IN  IF found.exc # "none" THEN found ELSE FilterRounds(found.v, only_rounds)

(***************************************************************************)
(* collect_matches, lines 426-486: the loop over rounds and events, and    *)
(* main's handlers.                                                        *)
(***************************************************************************)
\* eid = ev.get("id") or safe_get(ev, "event.id")
EventId(ev) == Or(Get(ev, "id"), safe_get(ev, <<"event", "id">>))

\* A variant that turns a failed fetch into an empty payload.
EmptyOnFailure(outcome) == IF outcome.t = "resp" THEN outcome.body ELSE EmptyObj

\* payload = None; try: payload = client.get_event_...(eid); except Exception: pass
BestEffort(outcome) == IF outcome.t = "resp" THEN outcome.body ELSE JNull

\* A variant that handles HTTP errors only.
CaughtHttpOnly(exc) == exc = "HTTPError"

\* except requests.HTTPError / except Exception (lines 479-482):
\* KeyboardInterrupt is a BaseException and passes both.
CaughtByLoop(exc) == exc # "KeyboardInterrupt"

\* str(path.relative_to(out_dir))
RECURSIVE PathStr(_)
PathStr(path) ==
    IF path = <<>> THEN ""
    ELSE IF Len(path) = 1 THEN path[1]
    ELSE path[1] \o "/" \o PathStr(Tail(path))

\* The index entry of lines 466-476.
IndexEntry(match_json, rid, path) ==
    JObj([eventId |-> Get(match_json, "eventId"),
          round |-> rid,
          file |-> JStr(PathStr(path)),
          home |-> safe_get(match_json, <<"teams", "home", "name">>),
          away |-> safe_get(match_json, <<"teams", "away", "name">>),
          startTimestamp |-> Get(match_json, "startTimestamp"),
          status |-> Get(match_json, "status")])

\* The exception that leaves the four fetches of lines 444-461, if any.
FetchException(core, lineups, statistics, incidents) ==
    IF core.t # "resp" THEN core.t
    ELSE IF lineups.t = "KeyboardInterrupt" \/ statistics.t = "KeyboardInterrupt"
            \/ incidents.t = "KeyboardInterrupt" THEN "KeyboardInterrupt"
    ELSE "none"

WriteOutcomes == WriteFaults \cup {"KeyboardInterrupt"}

\* The body of the try of lines 443-477 for one event: the exception that
\* leaves it, the files after it, and the index entry it appends.
TryEvent(fs, rid, core, lineups, statistics, incidents, write) ==
    LET fetch == FetchException(core, lineups, statistics, incidents)
        match_json == build_match_json(core.body, BestEffort(lineups),
                                       BestEffort(statistics), BestEffort(incidents))
        saved == save_match_json(fs, match_json,
                                 IF write = "KeyboardInterrupt" THEN "dump" ELSE write)
        NoEntry(exc, files_after) == [exc |-> exc, files |-> files_after, entry |-> <<>>]
    IN  IF fetch # "none" THEN NoEntry(fetch, fs)
        ELSE IF IsRaise(match_json) THEN NoEntry("AttributeError", fs)
        ELSE IF IsRaise(OutPath(match_json)) THEN NoEntry("ValueError", fs)
        ELSE IF write = "KeyboardInterrupt" THEN NoEntry("KeyboardInterrupt", saved.files)
        ELSE IF saved.raised THEN NoEntry("OSError", saved.files)
        ELSE [exc |-> "none", files |-> saved.files,
              entry |-> <<IndexEntry(match_json, rid, saved.path)>>]

\* save_index(base_dir, items)
save_index(fs, items) ==
    [p \in DOMAIN fs \cup {<<"index.json">>} |->
        IF p = <<"index.json">> THEN JList(items) ELSE fs[p]]

\* main, lines 512-517: what the CLI logs for the way collect_matches ends.
MainHandler(exc) ==
    [t |-> "exited",
     log |-> CASE exc = "none" -> "none"
               [] exc = "KeyboardInterrupt" -> "warning"
               [] OTHER -> "fatal"]

(***************************************************************************)
(* The API the collector talks to, and the runs of the CLI.                *)
(***************************************************************************)
\* Event e is played in round 1 or 2.
TrueRound(e) == ((e - 1) % 2) + 1

\* Items of a listing: an event, an event in an envelope, an item without id.
Listed(e) == JObj([id |-> JInt(e), roundInfo |-> JObj([round |-> JInt(TrueRound(e))])])
Enveloped(e) == JObj([event |-> JObj([id |-> JInt(e)])])
Anonymous == JObj([slug |-> JStr("x")])

\* The events of round r in the order of their ids.
RECURSIVE ListedFrom(_, _)
ListedFrom(e, r) ==
    IF e > MaxEvents THEN <<>>
    ELSE (IF r = 0 \/ TrueRound(e) = r THEN <<Listed(e)>> ELSE <<>>) \o ListedFrom(e + 1, r)

\* Listings of round r (0: the season): complete, with the first item twice,
\* with an item without id first, with the first item in an envelope.
Listings(r) ==
    LET full == ListedFrom(1, r)
    IN  {full, <<full[1]>> \o full, <<Anonymous>> \o full,
         <<Enveloped(EventId(full[1]).i)>> \o Tail(full)}

EventResponses(r) ==
    {<<Resp(JObj([events |-> JList(l)])), HttpError>> : l \in Listings(r)}
    \cup {<<HttpError, Resp(JObj([matches |-> JList(ListedFrom(1, r))]))>>,
          <<Resp(EmptyObj), Resp(JObj([events |-> EmptyList]))>>,
          <<HttpError, HttpError>>,
          <<HttpError, ConnectionError>>,
          <<KeyboardInterrupt, HttpError>>}

\* Round entries: identified by "id", by "round", or by neither.
RoundById(n) == JObj([id |-> JInt(n)])
RoundByNumber(n) == JObj([round |-> JInt(n), name |-> JStr("Round")])
NamelessRound == JObj([name |-> JStr("Final")])

RoundsResponses ==
    {<<Resp(JObj([rounds |-> JList(l)])), HttpError>> :
        l \in {<<RoundById(1), RoundByNumber(2)>>, <<RoundByNumber(2), RoundById(1)>>,
               <<RoundById(1)>>, <<RoundById(1), RoundById(1)>>,
               <<RoundById(1), NamelessRound>>, <<NamelessRound, RoundById(2)>>}}
    \cup {<<HttpError, Resp(JObj([data |-> JList(<<RoundById(1), RoundById(2)>>)]))>>,
          <<Resp(JObj([rounds |-> EmptyList])), HttpError>>,
          <<HttpError, HttpError>>,
          <<ConnectionError, HttpError>>,
          <<KeyboardInterrupt, HttpError>>}

Api(rounds, season, round1, round2) ==
    [rounds |-> rounds, season |-> season, byRound |-> [k \in {"1", "2"} |->
        IF k = "1" THEN round1 ELSE round2]]

\* The usual answers, and the APIs that differ from them in at most two of
\* the listings.
UsualRounds == <<Resp(JObj([rounds |-> JList(<<RoundById(1), RoundByNumber(2)>>)])), HttpError>>
UsualEvents(r) == <<Resp(JObj([events |-> JList(ListedFrom(1, r))])), HttpError>>

Apis ==
    {Api(rs, UsualEvents(0), r1, UsualEvents(2)) :
        rs \in RoundsResponses, r1 \in EventResponses(1)}
    \cup {Api(rs, s, UsualEvents(1), UsualEvents(2)) :
            rs \in RoundsResponses, s \in EventResponses(0)}
    \cup {Api(UsualRounds, s, r1, UsualEvents(2)) :
            s \in EventResponses(0), r1 \in EventResponses(1)}
    \cup {Api(UsualRounds, UsualEvents(0), r1, r2) :
            r1 \in EventResponses(1), r2 \in EventResponses(2)}

OnlyRounds == {<<>>, <<1, 1>>, <<1, 2>>}

UsualApi == Api(UsualRounds, UsualEvents(0), UsualEvents(1), UsualEvents(2))

\* --season-year, and the seasons /unique-tournament/{id}/seasons lists: one
\* with a numeric year, one found by its name only.
SeasonYears == {2024, 2025}

Seasons ==
    <<JObj([id |-> JInt(SEASON_ID), year |-> JInt(2025), name |-> JStr("Serie A 2025")]),
      JObj([id |-> JInt(58766), year |-> JStr("24"), name |-> JStr("2024")])>>

\* The first element of a sequence that satisfies a test, as a sequence.
RECURSIVE FirstSeason(_, _, _)
FirstSeason(seasons, year, by_name) ==
    IF seasons = <<>> THEN <<>>
    ELSE IF (IF by_name THEN StrOf(Get(Head(seasons), "name")) = ToString(year)
                        ELSE Get(Head(seasons), "year") = JInt(year))
         THEN <<Head(seasons)>>
    ELSE FirstSeason(Tail(seasons), year, by_name)

\* SofaScoreClient.get_season_id_by_year: the season whose "year" is the
\* year, else the season whose name is the year as text, else None.
get_season_id_by_year(seasons, year) ==
    LET by_year == FirstSeason(seasons, year, FALSE)
        by_name == FirstSeason(seasons, year, TRUE)
    IN  IF by_year # <<>> THEN Get(by_year[1], "id")
        ELSE IF by_name # <<>> THEN Get(by_name[1], "id")
        ELSE JNull

\* The event as /event/{id} gives it, in its envelope.
CoreOf(e) ==
    JObj([event |->
        JObj([id |-> JInt(e), slug |-> JStr("alpha-beta"),
              startTimestamp |-> JInt(1700000000),
              status |-> JObj([type |-> JStr("finished")]),
              roundInfo |-> JObj([round |-> JInt(TrueRound(e))]),
              homeTeam |-> TeamA, awayTeam |-> TeamB,
              homeScore |-> JObj([current |-> JInt(2)]),
              awayScore |-> JObj([current |-> JInt(1)])])])

\* A core the normalizer raises on.
BrokenCore == JObj([event |-> JNull])

CoreOutcomes(e) ==
    {Resp(CoreOf(e)), Resp(BrokenCore), HttpError, ConnectionError, KeyboardInterrupt}

LineupsOutcomes == {Resp(JObj([confirmed |-> JInt(1)])), HttpError, ConnectionError}
StatisticsOutcomes == {Resp(JObj([statistics |-> EmptyList])), HttpError}
IncidentsOutcomes == {Resp(JObj([incidents |-> EmptyList])), HttpError}

\* What the API and the disk do during one event: every combination of the
\* three optional payloads with a core that is served and a write that
\* succeeds; otherwise one thing goes wrong at a time.
EventOutcomes(e) ==
    {[core |-> Resp(CoreOf(e)), lineups |-> l, statistics |-> s, incidents |-> i,
      write |-> "none"] :
        l \in LineupsOutcomes, s \in StatisticsOutcomes, i \in IncidentsOutcomes}
    \cup {[core |-> c, lineups |-> Resp(JObj([confirmed |-> JInt(1)])),
           statistics |-> HttpError, incidents |-> Resp(JObj([incidents |-> EmptyList])),
           write |-> w] :
            c \in CoreOutcomes(e), w \in WriteOutcomes}
    \cup {[core |-> Resp(CoreOf(e)), lineups |-> l, statistics |-> s, incidents |-> i,
           write |-> "none"] :
            l \in {HttpError, KeyboardInterrupt}, s \in {HttpError, KeyboardInterrupt},
            i \in {HttpError, KeyboardInterrupt}}

\* The outcomes explored for the events after the first one of a run: all
\* served, one payload missing, the core refused, an interrupt.
LaterOutcomes(e) ==
    {[core |-> c, lineups |-> Resp(JObj([confirmed |-> JInt(1)])),
      statistics |-> Resp(JObj([statistics |-> EmptyList])), incidents |-> i,
      write |-> "none"] :
        c \in {Resp(CoreOf(e)), HttpError, KeyboardInterrupt},
        i \in {Resp(JObj([incidents |-> EmptyList])), HttpError}}

CollectInit ==
    /\ StoreIdle
    /\ NormIdle
    /\ CleanIdle
    /\ FilesIdle
    /\ CollectIdle
    /\ EmbedIdle
    /\ ListIdle

Running(rounds, season_year) ==
    [pc |-> "loop", rounds |-> rounds, ri |-> 1, ei |-> 0, all_index |-> <<>>,
     exc |-> "none", log |-> <<>>,
     season_year |-> season_year, season_id |-> SEASON_ID]

\* The exception leaves collect_matches: nothing after the raise is executed.
RaisedFrom(r, exc) == [r EXCEPT !.pc = "raised", !.exc = exc]

\* main calls collect_matches, which lists the rounds and their events
\* (lines 370-424).
Collect ==
    /\ run = NotCalled
    /\ \E season_year \in SeasonYears, only_rounds \in OnlyRounds :
        \E api \in IF season_year = 2025 THEN Apis ELSE {UsualApi} :
          LET found == DiscoverRounds(api, only_rounds)
          IN  IF found.exc = "none"
              THEN /\ run' = Running(found.v, season_year)
                   /\ cli' = [t |-> "running", log |-> "none"]
              ELSE /\ run' = RaisedFrom(Running(<<>>, season_year), found.exc)
                   /\ cli' = MainHandler(found.exc)
    /\ UNCHANGED <<storeVars, normVars, cleanVars, fileVars, embedVars, listVars>>

InLoop == run # NotCalled /\ run.pc = "loop"

\* for r in rounds: rid = int(r.get("id")); events = r.get("events", []);
\* if not events: continue (lines 426-431)
EnterRound ==
    /\ InLoop /\ run.ri <= Len(run.rounds) /\ run.ei = 0
    /\ LET r == run.rounds[run.ri]
       IN  IF IsRaise(IntOf(Get(r, "id")))
           THEN /\ run' = RaisedFrom(run, "TypeError")
                /\ cli' = MainHandler("TypeError")
           ELSE /\ run' = IF Truthy(DictGet(r, "events", EmptyList))
                          THEN [run EXCEPT !.ei = 1]
                          ELSE [run EXCEPT !.ri = @ + 1]
                /\ UNCHANGED cli
    /\ UNCHANGED <<storeVars, normVars, cleanVars, fileVars, embedVars, listVars>>

\* The position after the event at run.ei of the round at run.ri.
Advanced(r) ==
    IF r.ei < Len(Get(r.rounds[r.ri], "events").l)
    THEN [r EXCEPT !.ei = @ + 1]
    ELSE [r EXCEPT !.ri = @ + 1, !.ei = 0]

FailedPayloads(o) ==
    {name \in {"lineups", "statistics", "incidents"} : o[name].t # "resp"}

\* One iteration of "for ev in batch" (lines 439-482).
ProcessEvent ==
    /\ InLoop /\ run.ri <= Len(run.rounds) /\ run.ei >= 1
    /\ LET r == run.rounds[run.ri]
           rid == IntOf(Get(r, "id"))
           ev == Get(r, "events").l[run.ei]
           eid == EventId(ev)
           Logged(result, exc, o, entry) ==
               [run EXCEPT !.log = Append(@, [ev |-> ev, eid |-> eid, rid |-> rid,
                                               result |-> result, exc |-> exc,
                                               outcome |-> o, entry |-> entry]),
                           !.all_index = @ \o entry]
       IN  IF ~Truthy(eid)
           THEN /\ run' = Advanced(Logged("noid", "none",
                                          [core |-> HttpError, lineups |-> HttpError,
                                           statistics |-> HttpError, incidents |-> HttpError,
                                           write |-> "none"], <<>>))
                /\ UNCHANGED <<cli, files>>
           ELSE \E o \in IF run.log = <<>> THEN EventOutcomes(eid.i)
                                             ELSE LaterOutcomes(eid.i) :
                \E done \in {TryEvent(files, rid, o.core, o.lineups, o.statistics,
                                      o.incidents, o.write)} :
                  /\ files' = done.files
                  /\ IF done.exc = "none"
                     THEN /\ run' = Advanced(Logged("saved", "none", o, done.entry))
                          /\ UNCHANGED cli
                     ELSE IF CaughtByLoop(done.exc)
                     THEN /\ run' = Advanced(Logged("failed", done.exc, o, <<>>))
                          /\ UNCHANGED cli
                     ELSE /\ run' = RaisedFrom(Logged("interrupted", done.exc, o, <<>>),
                                               done.exc)
                          /\ cli' = MainHandler(done.exc)
    /\ UNCHANGED <<storeVars, normVars, cleanVars, saveLog, embedVars, listVars>>

\* save_index(out_dir, all_index); return all_index (lines 484-486), and
\* main returns.
Finish ==
    /\ InLoop /\ run.ri > Len(run.rounds)
    /\ files' = save_index(files, run.all_index)
    /\ run' = [run EXCEPT !.pc = "returned"]
    /\ cli' = MainHandler("none")
    /\ UNCHANGED <<storeVars, normVars, cleanVars, saveLog, embedVars, listVars>>

CollectNext == Collect \/ EnterRound \/ ProcessEvent \/ Finish

CollectSpec == CollectInit /\ [][CollectNext]_vars

(***************************************************************************)
(* Properties of the collector.                                            *)
(***************************************************************************)
RunReturned == run # NotCalled /\ run.pc = "returned"

RunRaised == run # NotCalled /\ run.pc = "raised"

IndexPath == <<"index.json">>

\* The match files on disk, as the index names them.
MatchFiles == {PathStr(p) : p \in DOMAIN files \ {IndexPath}}

IndexOnDisk == IF IndexPath \in DOMAIN files THEN files[IndexPath].l ELSE <<>>

LastEvent == run.log[Len(run.log)]

\* The file an index entry names.
FileOf(entry) == CHOOSE p \in DOMAIN files : PathStr(p) = entry.o["file"].s

\* C16: after a run that returns, the index holds one entry per match file
\* written: as many entries as distinct files, each naming a file written.
C16_OneEntryPerFile ==
    RunReturned =>
        /\ Len(IndexOnDisk) = Cardinality(MatchFiles)
        /\ \A i \in 1..Len(IndexOnDisk) : IndexOnDisk[i].o["file"].s \in MatchFiles

\* The number of events of the first n rounds.
RECURSIVE EventsIn(_, _)
EventsIn(rounds, n) ==
    IF n = 0 THEN 0
    ELSE EventsIn(rounds, n - 1) + Len(Get(rounds[n], "events").l)

\* The number of events before position (ri, ei) of the loop.
EventsBefore(rounds, ri, ei) ==
    EventsIn(rounds, ri - 1) + (IF ei >= 1 THEN ei - 1 ELSE 0)

RECURSIVE EntriesOf(_)
EntriesOf(log) == IF log = <<>> THEN <<>> ELSE log[1].entry \o EntriesOf(Tail(log))

Interrupted(o) ==
    \/ \E name \in {"core", "lineups", "statistics", "incidents"} :
          o[name] = KeyboardInterrupt
    \/ o.write = "KeyboardInterrupt"

\* The event of a log entry was attempted and its core fetch failed, its
\* normalization raised or its file could not be written.
Failure(e) ==
    /\ Truthy(EventId(e.ev))
    /\ \/ e.outcome.core \in {HttpError, ConnectionError}
       \/ /\ e.outcome.core = Resp(BrokenCore)
          /\ ~Interrupted(e.outcome)
       \/ /\ e.outcome.core.t = "resp"
          /\ e.outcome.write \in {"open", "dump"}
          /\ ~Interrupted(e.outcome)

\* A step of the loop in which the event being processed fails.
EventFails ==
    /\ InLoop /\ run'.log # run.log
    /\ Failure(run'.log[Len(run'.log)])

\* C17: an event whose core fetch fails, whose normalization raises or whose
\* file cannot be written is skipped and nothing else: it gets no index
\* entry, the loop goes on with the next event, and a run that returns has
\* processed every event and written the index of the events saved.
C17_FailureSkipsOnlyThatEvent ==
    /\ [](run # NotCalled =>
            /\ \A i \in 1..Len(run.log) :
                  Failure(run.log[i]) => run.log[i].entry = <<>>
            /\ run.all_index = EntriesOf(run.log)
            /\ run.pc = "loop" => Len(run.log) = EventsBefore(run.rounds, run.ri, run.ei)
            /\ RunReturned =>
                  /\ Len(run.log) = EventsBefore(run.rounds, Len(run.rounds) + 1, 0)
                  /\ IndexPath \in DOMAIN files
                  /\ IndexOnDisk = run.all_index)
    /\ [][EventFails =>
            /\ run'.pc = "loop"
            /\ run'.all_index = run.all_index
            /\ <<run'.ri, run'.ei>> = <<Advanced(run).ri, Advanced(run).ei>>
            /\ cli' = cli]_vars

\* The first event of a run fails, a later one is saved, and the run returns
\* with the index of the later one.
C17_Witness ==
    /\ RunReturned
    /\ Len(run.log) >= 2
    /\ Failure(run.log[1]) /\ run.log[1].outcome.core = ConnectionError
    /\ run.log[2].result = "saved"
    /\ Len(IndexOnDisk) = 1

\* C18: collect_matches ends with an error only when discovery finds no
\* rounds and no events.
C18_OnlyEmptyDiscoveryRaises ==
    (RunRaised /\ run.exc # "KeyboardInterrupt") =>
        /\ run.exc = "RuntimeError"
        /\ run.rounds = <<>>

\* C19: whatever subset of the lineups, statistics and incidents fetches
\* fails, an event whose core is served, normalized and written is saved and
\* indexed, and its file has null for exactly the payloads that failed.
C19_OptionalPayloadsBestEffort ==
    (/\ run # NotCalled /\ run.log # <<>>
     /\ Truthy(EventId(LastEvent.ev))
     /\ LastEvent.outcome.core.t = "resp" /\ LastEvent.outcome.core.body # BrokenCore
     /\ LastEvent.outcome.write = "none"
     /\ ~Interrupted(LastEvent.outcome)) =>
        /\ LastEvent.result = "saved"
        /\ run.all_index # <<>>
        /\ run.all_index[Len(run.all_index)] = LastEvent.entry[1]
        /\ \A name \in {"lineups", "statistics", "incidents"} :
              (files[FileOf(LastEvent.entry[1])].o["raw"].o[name] = JNull)
                  <=> (name \in FailedPayloads(LastEvent.outcome))

\* Lineups and incidents fail, statistics are served; the match is saved.
C19_Witness ==
    /\ run # NotCalled /\ run.log # <<>>
    /\ LastEvent.result = "saved"
    /\ FailedPayloads(LastEvent.outcome) = {"lineups", "incidents"}
    /\ files[FileOf(LastEvent.entry[1])].o["raw"].o["statistics"] # JNull

\* C20: an interrupt that arrives while an event is in progress lets that
\* event complete (its file and its index entry are written) before the run
\* stops with a warning.
C20_InterruptCompletesEvent ==
    (RunRaised /\ run.exc = "KeyboardInterrupt" /\ run.log # <<>>
     /\ Interrupted(LastEvent.outcome)) =>
        /\ cli = MainHandler("KeyboardInterrupt")
        /\ \E i \in 1..Len(run.all_index) :
              /\ run.all_index[i].o["eventId"] = LastEvent.eid
              /\ files[FileOf(run.all_index[i])] # PartialFile

\* C21: the rounds and events are requested for the season id that the
\* requested season year resolves to.
C21_SeasonOfRequestedYear ==
    run # NotCalled =>
        JInt(run.season_id) = get_season_id_by_year(Seasons, run.season_year)

(***************************************************************************)
(* The listing functions applied to bounded sets of candidate outcomes.    *)
(***************************************************************************)
ListingFunctions == {"get_rounds", "get_events_by_season", "get_events_by_round"}

\* The two keys a listing function reads its collection from.
ListingKeys(fn) == IF fn = "get_rounds" THEN <<"rounds", "data">> ELSE <<"events", "matches">>

\* What one candidate endpoint can answer.
CandidateOutcomes(fn) ==
    LET key == ListingKeys(fn)[1]
        key2 == ListingKeys(fn)[2]
        one == JList(<<JObj([id |-> JInt(1)])>>)
        two == JList(<<JObj([id |-> JInt(2)]), JObj([id |-> JInt(1)])>>)
    IN  {Resp(MkObj([k \in {key, key2} |-> IF k = key THEN a ELSE b])) :
            a \in {Absent, JNull, EmptyList, one, two}, b \in {Absent, EmptyList, one}}
        \cup {HttpError, ConnectionError, KeyboardInterrupt}

ListInit ==
    /\ StoreIdle
    /\ NormIdle
    /\ CleanIdle
    /\ FilesIdle
    /\ CollectIdle
    /\ EmbedIdle
    /\ listIn \in {[fn |-> fn, outcomes |-> <<c1, c2>>] :
                      fn \in ListingFunctions,
                      c1 \in CandidateOutcomes("get_rounds") \cup CandidateOutcomes("get_events_by_season"),
                      c2 \in CandidateOutcomes("get_rounds") \cup CandidateOutcomes("get_events_by_season")}
    /\ listOut = NotCalled

\* The call of a listing function whose candidate endpoints answer as given.
CallListing ==
    /\ listOut = NotCalled
    /\ LET api == Api(listIn.outcomes, listIn.outcomes, listIn.outcomes, listIn.outcomes)
       IN  listOut' = CASE listIn.fn = "get_rounds" -> get_rounds(api)
                        [] listIn.fn = "get_events_by_season" -> get_events_by_season(api)
                        [] OTHER -> get_events_by_round(api, JInt(1))
    /\ UNCHANGED <<listIn, storeVars, normVars, cleanVars, fileVars, collectVars, embedVars>>

ListNext == CallListing

ListSpec == ListInit /\ [][ListNext]_vars

(***************************************************************************)
(* Properties of the listing functions.                                    *)
(***************************************************************************)
\* The collection candidate i obtains: empty for an HTTP error.
Obtained(i) ==
    LET c == listIn.outcomes[i]
        keys == ListingKeys(listIn.fn)
    IN  IF c.t # "resp" THEN EmptyList
        ELSE IF Truthy(Get(c.body, keys[1])) THEN Get(c.body, keys[1])
        ELSE IF Truthy(Get(c.body, keys[2])) THEN Get(c.body, keys[2])
        ELSE EmptyList

\* C22: a listing call that returns has requested its candidates in order up
\* to the first one that gave a non-empty collection and no further, returns
\* that collection, and returns the empty list only after every candidate
\* gave an HTTP error or an empty collection.
C22_FirstNonEmptyCandidate ==
    (listOut # NotCalled /\ listOut.exc = "none") =>
        LET n == listOut.requests
        IN  /\ n \in 1..Len(listIn.outcomes)
            /\ \A i \in 1..(n - 1) :
                  /\ listIn.outcomes[i].t \in {"HTTPError", "resp"}
                  /\ Obtained(i) = EmptyList
            /\ listOut.v = Obtained(n)
            /\ listOut.v = EmptyList => n = Len(listIn.outcomes)
            /\ listOut.v # EmptyList =>
                  /\ listIn.outcomes[n].t = "resp"
                  /\ Len(listOut.v.l) > 0

\* The first candidate is served with an empty collection, the second has
\* events: two requests, the second's events returned.
C22_Witness ==
    /\ listOut # NotCalled /\ listOut.exc = "none"
    /\ listIn.outcomes[1].t = "resp" /\ Obtained(1) = EmptyList
    /\ listOut.requests = 2
    /\ listOut.v # EmptyList

(***************************************************************************)
(* Properties of the incidents field and of the flattened statistics.      *)
(***************************************************************************)
\* C23: the incidents field of a canonical match is a list: the payload's
\* incident list when it has one, the empty list when the payload is absent
\* or carries an empty incident list.
C23_IncidentsIsList ==
    Returned =>
        LET payload == normIn.incidents
            listed == safe_get(payload, <<"incidents">>)
        IN  /\ normOut.o["incidents"].t = "list"
            /\ (listed.t = "list" /\ Len(listed.l) > 0) => normOut.o["incidents"] = listed
            /\ (payload = JNull \/ listed = EmptyList) => normOut.o["incidents"] = EmptyList

\* The statistics payload has groups of items.
Flattened == Returned /\ IsObj(normIn.statistics) /\ Truthy(normIn.statistics)

\* The named items of the payload: name (stripped), home and away value.
NamedItems ==
    LET payload == normIn.statistics
        groups == Or(Or(Get(payload, "statistics"), Get(payload, "groups")), EmptyList).l
        ItemsOf(g) == Or(Or(Get(g, "statisticsItems"), Get(g, "items")), EmptyList).l
        NameOf(it) == Strip(Or(Or(Get(it, "name"), Get(it, "title")), JStr("")).s)
        Item(it) == [name |-> NameOf(it), home |-> Get(it, "home"), away |-> Get(it, "away")]
    IN  {it \in UNION {{Item(ItemsOf(groups[g])[i]) : i \in 1..Len(ItemsOf(groups[g]))} :
                         g \in 1..Len(groups)} : it.name # ""}

HasExpectedGoals == "expectedGoals" \in DOMAIN normIn.statistics.o

\* C24 as stated: the flattened statistics are one map from statistic name
\* to the {home, away} pair of the item, with an xG pair exactly when the
\* payload has an expected-goals block.
C24_NameToPair ==
    Flattened =>
        LET flat == flatten_team_stats(normIn.statistics).o
        IN  /\ \A it \in NamedItems :
                  /\ it.name \in DOMAIN flat
                  /\ flat[it.name] = JObj([home |-> it.home, away |-> it.away])
            /\ ("xG" \in DOMAIN flat) <=> HasExpectedGoals

\* C24 (amended): the flattened statistics are two maps, one per side, from
\* statistic name to the value of a so-named item for that side, with
\* exactly the names of the named items, plus an xG entry holding the
\* expected-goals value of the side exactly when the payload has the block;
\* each side's map is the statistics of that team in the canonical match.
C24_SideToNameToValue ==
    Flattened =>
        LET flat == flatten_team_stats(normIn.statistics).o
        IN  /\ DOMAIN flat = {"home", "away"}
            /\ \A side \in {"home", "away"} :
                  /\ DOMAIN flat[side].o =
                        {it.name : it \in NamedItems}
                            \cup (IF HasExpectedGoals THEN {"xG"} ELSE {})
                  /\ \A name \in DOMAIN flat[side].o \ {"xG"} :
                        \E it \in NamedItems : it.name = name /\ flat[side].o[name] = it[side]
                  /\ HasExpectedGoals =>
                        flat[side].o["xG"] = Get(normIn.statistics.o["expectedGoals"], side)
                  /\ normOut.o["teams"].o[side].o["statistics"] = flat[side]

\* Groups with named and unnamed items and an expected-goals block.
C24_Witness ==
    /\ Flattened /\ HasExpectedGoals
    /\ Cardinality(NamedItems) >= 2
    /\ "xG" \in DOMAIN normOut.o["teams"].o["home"].o["statistics"].o
    /\ "Shots" \in DOMAIN normOut.o["teams"].o["away"].o["statistics"].o

\* after is before without some keys of keys_to_remove: every other key is
\* where it was, scalars are the same, lists keep length and order.
RECURSIVE SameButRemoved(_, _, _)
SameButRemoved(before, after, keys_to_remove) ==
    IF before.t = "obj" THEN
        /\ after.t = "obj"
        /\ DOMAIN before.o \ keys_to_remove \subseteq DOMAIN after.o
        /\ DOMAIN after.o \subseteq DOMAIN before.o
        /\ \A key \in DOMAIN before.o \ keys_to_remove :
              SameButRemoved(before.o[key], after.o[key], keys_to_remove)
    ELSE IF before.t = "list" THEN
        /\ after.t = "list"
        /\ Len(after.l) = Len(before.l)
        /\ \A i \in 1..Len(before.l) :
              SameButRemoved(before.l[i], after.l[i], keys_to_remove)
    ELSE after = before

\* C25: clean_data changes nothing but the removed keys: every key outside
\* the removal set with no ancestor in it is still at its place, scalar
\* values are unchanged and lists keep their length and order.
C25_OnlyRemovedKeysChange ==
    \A i \in 1..Len(cleanOut) : SameButRemoved(cleanIn.data, cleanOut[i], cleanIn.keys)

\* A mapping that loses one key and keeps two: a scalar, and a list of a
\* scalar and a mapping that itself loses a key.
C25_Witness ==
    /\ Len(cleanOut) >= 1
    /\ cleanIn.keys = {"ar"}
    /\ cleanIn.data = JObj([slug |-> Leaf, ar |-> Leaf,
                            name |-> JList(<<Leaf, JObj([ar |-> JStr("slug")])>>)])
    /\ cleanOut[1] = JObj([slug |-> Leaf, name |-> JList(<<Leaf, EmptyObj>>)])

\* C27: the sub-chunks written by one add_document call carry the same
\* parent_id, supplied or generated, and chunk_index 0..n-1 in text order.
C27_SubChunksShareParent ==
    (lastOp.op = "add_document" /\ lastOp.outcome = "ok") =>
        \A i, j \in 1..Len(lastOp.result) :
            /\ table[lastOp.result[i]].metadata["chunk_index"] = i - 1
            /\ table[lastOp.result[i]].metadata["parent_id"]
                  = table[lastOp.result[j]].metadata["parent_id"]

\* C28: whatever is saved into one output directory, there is at most one
\* match file per eventId, also when the start timestamp, the round or a
\* team slug of the match differs between two saves.
C28_OneFilePerEventId ==
    \A p, q \in DOMAIN files :
        (/\ files[p] # PartialFile /\ files[q] # PartialFile
         /\ Get(files[p], "eventId") # JNull
         /\ Get(files[p], "eventId") = Get(files[q], "eventId")) => p = q

\* The run has stopped: collect_matches returned, or an interrupt ended it.
RunStopped == RunReturned \/ (RunRaised /\ run.exc = "KeyboardInterrupt")

\* The match files written in full.
PersistedFiles == {PathStr(p) : p \in {q \in DOMAIN files \ {IndexPath} : files[q] # PartialFile}}

\* C29: when a run stops, by completion or by an interrupt, index.json has
\* been written by it and lists every match file the run persisted.
C29_IndexWrittenWhenStopped ==
    RunStopped =>
        /\ IndexPath \in DOMAIN files
        /\ PersistedFiles \subseteq
              {IndexOnDisk[i].o["file"].s : i \in 1..Len(IndexOnDisk)}

(***************************************************************************)
(* cleaner.py and embedder.py: the passes over the files of a directory.   *)
(* A file is its path and what it holds: the text of a JSON value, text    *)
(* that is no JSON (also a file cut short while it was written), or bytes  *)
(* that are no UTF-8.                                                      *)
(***************************************************************************)
JsonFile(value) == [t |-> "text", value |-> value]
Garbage == [t |-> "garbage"]
NotUtf8 == [t |-> "bytes"]

Loaded(value) == [exc |-> "none", value |-> value]
LoadFailed(exc) == [exc |-> exc, value |-> JNull]

\* open(file_path, 'r', encoding='utf-8'), read and json.loads / json.load
LoadJson(content) ==
    CASE content.t = "text" -> Loaded(content.value)
      [] content.t = "bytes" -> LoadFailed("UnicodeDecodeError")
      [] OTHER -> LoadFailed("JSONDecodeError")

\* A per-file handler that catches the decoding error only.
CaughtJsonOnly(exc) == exc = "JSONDecodeError"

\* except json.JSONDecodeError: ... except Exception: ...
CaughtPerFile(exc) ==
    exc \in {"JSONDecodeError", "UnicodeDecodeError", "AttributeError", "OSError"}

\* What the handlers print for the file.
FailureStatus(exc) == IF exc = "JSONDecodeError" THEN "json_error" ELSE "error"

\* os.path.join(output_path, os.path.relpath(file_path, base_path)), as a
\* path below the output root
OutputFilePath(file_path) == file_path

\* The body of the loop of process_directory for one file: the report and
\* the output tree after it.
CleanOneFile(fs, file, keys_to_remove, fault) ==
    LET loaded == LoadJson(file.content)
        cleaned_content == JsonFile(clean_data(loaded.value, keys_to_remove))
        Report(status, exc, tree) ==
            [path |-> file.path, status |-> status, exc |-> exc, files |-> tree]
    IN  IF loaded.exc # "none" THEN Report(FailureStatus(loaded.exc), loaded.exc, fs)
        ELSE IF fault # "none" THEN
            Report("error", "OSError",
                   WriteFile(fs, OutputFilePath(file.path), cleaned_content, fault))
        ELSE Report("saved", "none",
                    WriteFile(fs, OutputFilePath(file.path), cleaned_content, "none"))

\* The metadata as add_document reads it: parent_id is a text.
StoreMetadata(metadata) ==
    [key \in DOMAIN metadata.o |->
        IF key = "parent_id" THEN metadata.o[key].s ELSE metadata.o[key]]

\* text_to_embed = json.dumps(chunk_content, ...): a text, not empty and
\* shorter than the default max_chunk_size
TextToEmbed(chunk_content) == <<chunk_content>>

\* The add_document calls of one file, from call i on: the table, the uuids
\* drawn and the ids of the rows written.
RECURSIVE StoreCalls(_, _, _, _)
StoreCalls(st, calls, env, i) ==
    IF i > Len(calls) THEN st
    ELSE
      LET start == [table |-> st.table, uuid |-> st.uuid, conns |-> <<>>, ids |-> <<>>,
                    embedCalls |-> 0, written |-> {}, outcome |-> "running",
                    failedAt |-> 0]
          fin == AddLoop(start, 1,
                         Chunks(TextToEmbed(calls[i].content), DEFAULT_MAX_CHUNK_SIZE),
                         StoreMetadata(calls[i].metadata),
                         <<env[i].response>>, <<env[i].fault>>)
      IN  StoreCalls([table |-> fin.table, uuid |-> fin.uuid,
                      stored |-> st.stored \cup fin.written], calls, env, i + 1)

\* The add_document calls the file makes before it is reported.
CallsOfFile(file) ==
    LET loaded == LoadJson(file.content)
    IN  IF loaded.exc # "none" THEN <<>>
        ELSE ProcessMatchFile(file.path, loaded.value).calls

\* The body of the loop of process_and_embed_directory for one file.
EmbedOneFile(tbl, uuid, file, env) ==
    LET loaded == LoadJson(file.content)
        res == ProcessMatchFile(file.path, loaded.value)
        Report(status, exc, count, st) ==
            [path |-> file.path, status |-> status, exc |-> exc, count |-> count,
             stored |-> st.stored, table |-> st.table, uuid |-> st.uuid]
        before == [table |-> tbl, uuid |-> uuid, stored |-> {}]
    IN  IF loaded.exc # "none" THEN
            Report(FailureStatus(loaded.exc), loaded.exc, 0, before)
        ELSE Report(res.status, IF res.status = "error" THEN "AttributeError" ELSE "none",
                    res.count, StoreCalls(before, res.calls, env, 1))

(***************************************************************************)
(* The passes applied to bounded batches of files.                         *)
(***************************************************************************)
MaxFiles == 2

File(path, content) == [path |-> path, content |-> content]

\* The i-th file glob finds.
CleanPath(i) == <<"brasileirao_2025", "rounds", "m" \o ToString(i) \o ".json">>
EmbedPath(i) == <<"data", "rounds", "m" \o ToString(i) \o ".json">>

CleanContents ==
    {JsonFile(JObj([slug |-> Leaf, name |-> JList(<<JObj([ar |-> Leaf])>>)])),
     JsonFile(Leaf), Garbage, PartialFile, NotUtf8}

StatPlayer == Player(10, JObj([goals |-> JInt(1)]))
NullPlayer == JObj([player |-> JNull, statistics |-> JObj([goals |-> JInt(2)])])

SideOf(players) == JObj([players |-> JList(players)])

\* Matches as save_match_json writes them: two players with statistics, one
\* followed by an entry whose player is null, and none.
EmbedContents ==
    {JsonFile(build_match_json(RichEvent, JObj([home |-> SideOf(h), away |-> SideOf(a)]),
                               JNull, JNull)) :
        <<h, a>> \in {<<(<<StatPlayer>>), <<StatPlayer>>>>,
                      <<(<<StatPlayer, NullPlayer>>), <<>>>>,
                      <<(<<Player(11, Absent)>>), <<>>>>}}
    \cup {JsonFile(d) : d \in OtherFiles}
    \cup {Garbage, NotUtf8}

Batches(contents, Path(_)) ==
    UNION {{[i \in 1..n |-> File(Path(i), c[i])] : c \in [1..n -> contents]} :
              n \in 0..MaxFiles}

\* The embedding service and the storage, for one add_document call.
CallEnvs ==
    {[response |-> GoodResponse, fault |-> "none"],
     [response |-> ExceptionResponse, fault |-> "none"],
     [response |-> GoodResponse, fault |-> "commit"]}

Pass(batch) == [t |-> "pass", pc |-> "loop", files |-> batch, reports |-> <<>>]

PassInit ==
    /\ StoreIdle
    /\ NormIdle
    /\ FilesIdle
    /\ CollectIdle
    /\ ListIdle
    /\ cleanOut = <<>>
    /\ embOut = NotCalled
    /\ \/ cleanIn \in {[t |-> "cleaner", pass |-> Pass(b), keys |-> {"ar"}] :
                          b \in Batches(CleanContents, CleanPath)}
          /\ embIn = NotCalled
       \/ embIn \in {[t |-> "embedder", pass |-> Pass(b)] :
                        b \in Batches(EmbedContents, EmbedPath)}
          /\ cleanIn = NotCalled

\* The pass after the report of its next file: the loop goes on, unless the
\* file's exception is not caught.
AfterFile(pass, report) ==
    [pass EXCEPT !.reports = Append(@, report),
                 !.pc = IF report.exc = "none" \/ CaughtPerFile(report.exc)
                        THEN "loop" ELSE "raised"]

AtFile(pass) == pass.pc = "loop" /\ Len(pass.reports) < Len(pass.files)

\* One iteration of the loop of process_directory.
CleanFile ==
    /\ cleanIn # NotCalled
    /\ AtFile(cleanIn.pass)
    /\ \E fault \in WriteFaults :
        \E report \in {CleanOneFile(files, cleanIn.pass.files[Len(cleanIn.pass.reports) + 1],
                                    cleanIn.keys, fault)} :
            /\ fault # "none" => LoadJson(cleanIn.pass.files[Len(cleanIn.pass.reports) + 1]
                                              .content).exc = "none"
            /\ files' = report.files
            /\ cleanIn' = [cleanIn EXCEPT !.pass = AfterFile(@,
                              [path |-> report.path, status |-> report.status,
                               exc |-> report.exc])]
    /\ UNCHANGED <<cleanOut, saveLog, storeVars, normVars, collectVars, embedVars, listVars>>

\* One iteration of the loop of process_and_embed_directory.
EmbedFile ==
    /\ embIn # NotCalled
    /\ AtFile(embIn.pass)
    /\ \E file \in {embIn.pass.files[Len(embIn.pass.reports) + 1]} :
        \E env \in [1..Len(CallsOfFile(file)) -> CallEnvs] :
            \E report \in {EmbedOneFile(table, uuidCount, file, env)} :
                /\ table' = report.table
                /\ uuidCount' = report.uuid
                /\ embIn' = [embIn EXCEPT !.pass = AfterFile(@,
                                [path |-> report.path, status |-> report.status,
                                 exc |-> report.exc, count |-> report.count,
                                 stored |-> report.stored, env |-> env])]
    /\ UNCHANGED <<lastOp, embOut, normVars, cleanVars, fileVars, collectVars, listVars>>

\* After the last file: "Processo de limpeza concluído." /
\* "Processo de embedding concluído."
EndPass ==
    /\ \/ /\ cleanIn # NotCalled
          /\ cleanIn.pass.pc = "loop" /\ ~AtFile(cleanIn.pass)
          /\ cleanIn' = [cleanIn EXCEPT !.pass.pc = "concluded"]
          /\ embIn' = embIn
       \/ /\ embIn # NotCalled
          /\ embIn.pass.pc = "loop" /\ ~AtFile(embIn.pass)
          /\ embIn' = [embIn EXCEPT !.pass.pc = "concluded"]
          /\ cleanIn' = cleanIn
    /\ UNCHANGED <<cleanOut, embOut, storeVars, normVars, fileVars, collectVars, listVars>>

PassNext == CleanFile \/ EmbedFile \/ EndPass

PassSpec == PassInit /\ [][PassNext]_vars

(***************************************************************************)
(* Properties of the passes.                                               *)
(***************************************************************************)
CleanerRuns == cleanIn # NotCalled
EmbedderRuns == embIn # NotCalled

ActivePass == IF CleanerRuns THEN cleanIn.pass ELSE embIn.pass

Undecodable(file) == file.content.t # "text"

\* The file holds JSON, but not a match with its raw payloads, or a lineup
\* entry of it has no player.
Incomplete(file) ==
    /\ ~Undecodable(file)
    /\ \/ ~IsObj(file.content.value)
       \/ ~Truthy(Get(file.content.value, "raw"))
       \/ \E side \in {"home", "away"} :
             LET players == safe_get(file.content.value, <<"raw", "lineups", side, "players">>)
             IN  players.t = "list" /\ NullPlayer \in Range(players.l)

\* The entries with statistics in the lineups of a complete match file.
StatEntries(file) ==
    LET Of(side) ==
            LET players == safe_get(file.content.value, <<"raw", "lineups", side, "players">>)
            IN  IF players.t = "list" THEN WithStats(players.l) ELSE <<>>
    IN  Of("home") \o Of("away")

\* C26: in both passes a file that cannot be decoded or is incomplete is
\* reported and left, every other file of the batch is processed whatever
\* came before it, no file's failure leaves the loop, and the pass ends
\* normally once every file has been reported.
C26_BadFileSkippedBatchContinues ==
    /\ [](LET pass == ActivePass
          IN  /\ pass.pc # "raised"
              /\ Len(pass.reports) <= Len(pass.files)
              /\ pass.pc = "concluded" => Len(pass.reports) = Len(pass.files)
              /\ \A i \in 1..Len(pass.reports) :
                    LET file == pass.files[i]
                        report == pass.reports[i]
                    IN  /\ report.path = file.path
                        /\ Undecodable(file) =>
                              /\ report.status \in {"json_error", "error"}
                              /\ CleanerRuns => OutputFilePath(file.path) \notin DOMAIN files
                              /\ EmbedderRuns => report.stored = {}
                        /\ (CleanerRuns /\ ~Undecodable(file)) =>
                              \/ /\ report.status = "saved"
                                 /\ files[OutputFilePath(file.path)]
                                       = JsonFile(clean_data(file.content.value, cleanIn.keys))
                              \/ report.exc = "OSError"
                        /\ (EmbedderRuns /\ Incomplete(file)) =>
                              report.status \in {"skipped", "error"}
                        /\ (EmbedderRuns /\ ~Undecodable(file) /\ ~Incomplete(file)) =>
                              /\ report.status \in {"ok", "empty"}
                              /\ report.count = Len(StatEntries(file))
                              /\ Len(report.env) = report.count)
    /\ [][\/ /\ AtFile(ActivePass)
             /\ Len(ActivePass'.reports) = Len(ActivePass.reports) + 1
             /\ ActivePass'.pc = "loop"
          \/ /\ Len(ActivePass.reports) = Len(ActivePass.files)
             /\ ActivePass'.reports = ActivePass.reports
             /\ ActivePass'.pc = "concluded"]_vars

\* A pass over two files has ended: the first could not be decoded or was
\* incomplete, the second was processed.
C26_Witness ==
    /\ ActivePass.pc = "concluded"
    /\ Len(ActivePass.files) = 2
    /\ Undecodable(ActivePass.files[1]) \/ (EmbedderRuns /\ Incomplete(ActivePass.files[1]))
    /\ ActivePass.reports[2].status \in {"saved", "ok"}

\* C30: for every file of the chunk-builder pass, the chunk count reported
\* is the number of chunks of the file stored, and a file reported as an
\* error has no chunk stored.
C30_ReportedCountIsStored ==
    EmbedderRuns =>
        \A i \in 1..Len(embIn.pass.reports) :
            LET report == embIn.pass.reports[i]
            IN  /\ report.status \in {"ok", "empty"} =>
                      report.count = Cardinality(report.stored)
                /\ report.status \in {"error", "json_error"} => report.stored = {}

=============================================================================
